---- MODULE Spec2Model ----
(***************************************************************************)
(* Model of dbapi's event-atomic record store (state + audit + outbox in   *)
(* one write transaction), the raw KV repository that shares the state     *)
(* table, and the outbox dispatcher.                                       *)
(***************************************************************************)
EXTENDS Integers, Sequences, FiniteSets, TLC

VARIABLES
  kv,           \* kv_entries: key -> row or NoRow
  audit,        \* audit_events, indexed by the AUTOINCREMENT id
  outbox,       \* outbox_events, indexed by the AUTOINCREMENT id
  uuidCounter,  \* number of uuid.NewString() values drawn so far
  kvOps,        \* number of KV repository mutations committed so far
  now,          \* wall clock (seconds)
  faults,       \* injected storage faults so far
  last,         \* the last store call: its arguments and what it returned
  pc,           \* per dispatcher worker: "idle" | "publish" | "mark"
  batch,        \* per worker: the rows FetchPending returned, not yet handled
  outcome,      \* per worker: result of the Publish/decode of the head event
  pubCount,     \* per outbox id: number of publisher.Publish calls made
  failCount,    \* per outbox id: number of failed dispatch attempts
  metrics,      \* per worker: the dispatcher's three counters
  restarts,     \* number of dispatcher restarts so far
  batchSize,    \* per worker: the dispatcher's batchSize field
  tick,         \* per worker, while a dispatchBatch call runs: the ids due
                \* when it fetched, the ids fetched, the ids passed to Publish
  mu,           \* OutboxDispatcher.mu: 0 when free, else the caller holding it
  cancel,       \* OutboxDispatcher.cancel: 0 for nil, else the context it cancels
  wg,           \* OutboxDispatcher.wg: the WaitGroup counter
  ctxDone,      \* the contexts whose cancel function was called
  loops,        \* per context: "none" | "batch" | "select" | "exited"
  calls,        \* per caller: the Start/Close call it is in and its position
  nCalls,       \* number of Start/Close calls begun so far
  replay,       \* one ReplayTenantEvents call: its arguments, cursor, page,
                \* the apply_fn calls made so far and what it returned
  schemaRepo,   \* collection_schemas row of one (tenant, collection), or "none"
  schemaCache,  \* SchemaService.cache entry of that (tenant, collection), or "none"
  schemaCalls,  \* per caller: the SchemaService call it is in and its position
  nSchemaCalls, \* number of SchemaService calls begun so far
  idemCache,    \* kv_entries rows under the idempotency keys: key -> row or NoRow
  bulkCalls,    \* per caller: the bulk request it is serving and its position
  nBulkCalls,   \* number of bulk requests begun so far
  http,         \* the last HTTP request served: its tenant and what it was shown
  writerConns,  \* the callers that hold a connection of the writer pool
  txs,          \* per caller: the write transaction it is in and its position
  nTxs,         \* number of write operations called so far
  norm,         \* the EventCodec.Normalize call in progress and its position
  marks,        \* per worker: the mark calls on the outbox repository that returned nil
  ident,        \* the last RecordService call, and per record what was last written under it
  rd,           \* the last read served from the reader pool: its snapshot and result
  bulkRun       \* the RecordService.BulkUpsert / BulkDelete call in progress

storeVars == <<kv, audit, outbox, uuidCounter, kvOps, faults, last>>
lifeVars  == <<mu, cancel, wg, ctxDone, loops, calls, nCalls>>
replayVars == <<replay>>
schemaVars == <<schemaRepo, schemaCache, schemaCalls, nSchemaCalls>>
idemVars  == <<idemCache, bulkCalls, nBulkCalls>>
httpVars  == <<http>>
txVars    == <<writerConns, txs, nTxs>>
extVars   == <<norm, marks, ident, rd, bulkRun>>
auxVars   == <<replayVars, schemaVars, idemVars, httpVars, txVars, extVars>>
dispVars  == <<pc, batch, outcome, pubCount, failCount, metrics, restarts, batchSize,
               tick, lifeVars, auxVars>>
vars      == <<kv, audit, outbox, uuidCounter, kvOps, now, faults, last,
               pc, batch, outcome, pubCount, failCount, metrics, restarts,
               batchSize, tick, mu, cancel, wg, ctxDone, loops, calls, nCalls,
               replay, schemaRepo, schemaCache, schemaCalls, nSchemaCalls,
               idemCache, bulkCalls, nBulkCalls, http, writerConns, txs, nTxs, extVars>>

(***************************************************************************)
(* Bounds of the model.                                                    *)
(***************************************************************************)
MaxWrites == 3
MaxRows == 2
MaxFaults == 1
MaxRestarts == 1
MaxTick == 1
MaxBatch == 1
MaxCalls == 3
MaxAudit == 3
MaxSchemaCalls == 4
MaxBulkCalls == 3
MaxRequests == 3
MaxTxs == 3

(***************************************************************************)
(* Program constants.                                                      *)
(***************************************************************************)
maxRetry == 5
DefaultBatchSize == 50
CurrentEventSchemaVersion == 1
DefaultAuditLimit == 100
WriterMaxOpenConns == 1
MaxAuditLimit == 1000

NoRow == [absent |-> TRUE]

Records == { <<"t1", "users", "u1">>, <<"t2", "users", "u1">> }
Values == {"A", "B"}
KVValues == {"K"}
KVCategories == {"users"}

recordKey(tenantID, collection, id) == tenantID \o "/" \o collection \o "/" \o id
recordCategory(tenantID, collection) == tenantID \o "/" \o collection

KeyOf(r) == recordKey(r[1], r[2], r[3])
Keys == {KeyOf(r) : r \in Records}

SetMax(S) == CHOOSE x \in S : \A y \in S : y <= x

\* MutationMetadata.Normalize: empty actor/source become "api", a zero
\* occurred_at becomes the current time.
Normalize(meta, t) ==
  [meta EXCEPT !.actor = IF @ = "" THEN "api" ELSE @,
               !.source = IF @ = "" THEN "api" ELSE @,
               !.occurred_at = IF @ = 0 THEN t ELSE @]

Metas == { [actor |-> "", source |-> "", request_id |-> "req-1", occurred_at |-> 0] }

\* json.Marshal of an EventEnvelope: the fields in declaration order.
MarshalEnvelope(env) ==
  << <<"event_id", env.event_id>>,
     <<"event_type", env.event_type>>,
     <<"schema_version", env.schema_version>>,
     <<"tenant_id", env.tenant_id>>,
     <<"aggregate_type", env.aggregate_type>>,
     <<"aggregate_id", env.aggregate_id>>,
     <<"aggregate_version", env.aggregate_version>>,
     <<"occurred_at", env.occurred_at>>,
     <<"actor", env.actor>>,
     <<"source", env.source>>,
     <<"payload", env.payload>> >>

JSONField(json, name) ==
  LET hits == {i \in 1..Len(json) : json[i][1] = name}
  IN  IF hits = {} THEN "" ELSE json[SetMax(hits)][2]

\* json.Unmarshal into an EventEnvelope.
UnmarshalEnvelope(json) ==
  [event_id |-> JSONField(json, "event_id"),
   event_type |-> JSONField(json, "event_type"),
   schema_version |-> JSONField(json, "schema_version"),
   tenant_id |-> JSONField(json, "tenant_id"),
   aggregate_type |-> JSONField(json, "aggregate_type"),
   aggregate_id |-> JSONField(json, "aggregate_id"),
   aggregate_version |-> JSONField(json, "aggregate_version"),
   occurred_at |-> JSONField(json, "occurred_at"),
   actor |-> JSONField(json, "actor"),
   source |-> JSONField(json, "source"),
   payload |-> JSONField(json, "payload")]

(***************************************************************************)
(* The database seen by one write transaction.                             *)
(***************************************************************************)
DB == [kv |-> kv, audit |-> audit, outbox |-> outbox]

\* Mutant of WriteTX: the transaction is committed whatever fn returns.
WriteTXNoRollback(db, out) == out.db

\* DB.WriteTX: gorm's Transaction commits when fn returns nil and rolls
\* back everything fn did when it returns an error.
WriteTX(db, out) == IF out.err = "none" THEN out.db ELSE db

\* INSERT ... ON CONFLICT(key) DO UPDATE SET category, value, updated_at.
UpsertEntry(table, key, category, value, t) ==
  IF table[key] = NoRow
  THEN [table EXCEPT ![key] =
          [category |-> category, value |-> value, created_at |-> t, updated_at |-> t]]
  ELSE [table EXCEPT ![key] =
          [@ EXCEPT !.category = category, !.value = value, !.updated_at = t]]

DeleteEntry(table, key) == [table EXCEPT ![key] = NoRow]

\* Mutant of nextAggregateVersion: the WHERE clause on the aggregate is lost.
nextAggregateVersionGlobal(auditRows, tenantID, collection, id) ==
  SetMax({auditRows[i].aggregate_version : i \in 1..Len(auditRows)} \cup {0}) + 1

\* COALESCE(MAX(aggregate_version), 0) + 1 over the aggregate's audit rows.
nextAggregateVersion(auditRows, tenantID, collection, id) ==
  LET mine == {auditRows[i].aggregate_version : i \in
                 {j \in 1..Len(auditRows) :
                    /\ auditRows[j].tenant_id = tenantID
                    /\ auditRows[j].aggregate_type = collection
                    /\ auditRows[j].aggregate_id = id}}
  IN  SetMax(mine \cup {0}) + 1

AuditRow(rows, rec, meta, beforeJSON, afterJSON, envelope) ==
  [id |-> Len(rows) + 1,
   event_id |-> envelope.event_id,
   schema_version |-> envelope.schema_version,
   tenant_id |-> rec[1],
   aggregate_type |-> rec[2],
   aggregate_id |-> rec[3],
   aggregate_version |-> envelope.aggregate_version,
   action |-> envelope.event_type,
   actor |-> meta.actor,
   source |-> meta.source,
   request_id |-> meta.request_id,
   before_json |-> beforeJSON,
   after_json |-> afterJSON,
   changed |-> (beforeJSON # afterJSON),
   occurred_at |-> envelope.occurred_at]

OutboxRow(rows, rec, envelope) ==
  [id |-> Len(rows) + 1,
   event_id |-> envelope.event_id,
   tenant_id |-> rec[1],
   topic |-> "events." \o rec[1] \o "." \o envelope.event_type,
   payload_json |-> MarshalEnvelope(envelope),
   status |-> "pending",
   attempts |-> 0,
   next_attempt_at |-> envelope.occurred_at,
   last_error |-> "",
   created_at |-> envelope.occurred_at,
   dispatched_at |-> -1]

\* Mutant of insertAuditAndOutbox: the outbox insert is skipped.
insertAuditOnly(db, rec, meta, beforeJSON, afterJSON, envelope, fail) ==
  IF fail = "audit"
  THEN [db |-> db, err |-> "insert audit event"]
  ELSE [db |-> [db EXCEPT !.audit =
                  Append(@, AuditRow(@, rec, meta, beforeJSON, afterJSON, envelope))],
        err |-> IF fail = "outbox" THEN "insert outbox event" ELSE "none"]

\* insertAuditAndOutbox: append the audit row, then the outbox row; either
\* insert may fail.
insertAuditAndOutbox(db, rec, meta, beforeJSON, afterJSON, envelope, fail) ==
  IF fail = "audit"
  THEN [db |-> db, err |-> "insert audit event"]
  ELSE LET db1 == [db EXCEPT !.audit =
                     Append(@, AuditRow(@, rec, meta, beforeJSON, afterJSON, envelope))]
       IN  IF fail = "outbox"
           THEN [db |-> db1, err |-> "insert outbox event"]
           ELSE [db |-> [db1 EXCEPT !.outbox = Append(@, OutboxRow(@, rec, envelope))],
                 err |-> "none"]

Envelope(eventID, action, rec, version, meta, payload) ==
  [event_id |-> eventID,
   event_type |-> action,
   schema_version |-> CurrentEventSchemaVersion,
   tenant_id |-> rec[1],
   aggregate_type |-> rec[2],
   aggregate_id |-> rec[3],
   aggregate_version |-> version,
   occurred_at |-> meta.occurred_at,
   actor |-> meta.actor,
   source |-> meta.source,
   payload |-> payload]

\* Mutant of eventTypeFor: the test on the before-row is inverted.
eventTypeForInverted(before) ==
  IF before # NoRow THEN "record.created" ELSE "record.updated"

\* "record.created" when no row existed before the upsert, else "record.updated".
eventTypeFor(before) ==
  IF before = NoRow THEN "record.created" ELSE "record.updated"

UpsertFails == {"load", "upsert", "reload", "version", "audit", "outbox", "commit"}
DeleteFails == {"load", "delete", "version", "audit", "outbox", "commit"}
KVUpsertFails == {"upsert", "reload", "commit"}
KVDeleteFails == {"delete", "commit"}

\* The callback UpsertWithEvents passes to WriteTX: the database as the
\* transaction left it, and the error it returned (fail names the failing step).
upsertTx(db, rec, value, meta, eventID, fail) ==
  LET key == recordKey(rec[1], rec[2], rec[3])
      category == recordCategory(rec[1], rec[2])
      before == db.kv[key]
      db1 == [db EXCEPT !.kv = UpsertEntry(@, key, category, value, meta.occurred_at)]
      after == db1.kv[key]
      action == eventTypeFor(before)
      version == nextAggregateVersion(db1.audit, rec[1], rec[2], rec[3])
      envelope == Envelope(eventID, action, rec, version, meta,
                    [record_id |-> rec[3], collection |-> rec[2], data |-> after.value])
      beforeJSON == IF before = NoRow THEN "" ELSE before.value
      ins == insertAuditAndOutbox(db1, rec, meta, beforeJSON, after.value, envelope, fail)
  IN  CASE fail = "load"    -> [db |-> db,  err |-> "load existing record"]
        [] fail = "upsert"  -> [db |-> db,  err |-> "upsert record"]
        [] fail = "reload"  -> [db |-> db1, err |-> "load updated record"]
        [] fail = "version" -> [db |-> db1, err |-> "query aggregate version"]
        [] fail = "commit"  -> [db |-> ins.db, err |-> "commit"]
        [] OTHER            -> ins

\* Mutant of deleteTx: a missing row is not detected, the event is written anyway.
deleteTxAlwaysEmits(db, rec, meta, eventID, fail) ==
  LET key == recordKey(rec[1], rec[2], rec[3])
      before == db.kv[key]
      db1 == [db EXCEPT !.kv = DeleteEntry(@, key)]
      version == nextAggregateVersion(db1.audit, rec[1], rec[2], rec[3])
      envelope == Envelope(eventID, "record.deleted", rec, version, meta,
                    [record_id |-> rec[3], collection |-> rec[2]])
      ins == insertAuditAndOutbox(db1, rec, meta,
               IF before = NoRow THEN "" ELSE before.value, "", envelope, fail)
  IN  CASE fail = "load"   -> [db |-> db, err |-> "load record before delete", deleted |-> FALSE]
        [] fail = "delete" -> [db |-> db, err |-> "delete record", deleted |-> FALSE]
        [] fail = "version" -> [db |-> db1, err |-> "query aggregate version", deleted |-> TRUE]
        [] fail = "commit" -> [db |-> ins.db, err |-> "commit", deleted |-> TRUE]
        [] OTHER           -> [db |-> ins.db, err |-> ins.err, deleted |-> TRUE]

\* The callback DeleteWithEvents passes to WriteTX, with the deleted flag it
\* leaves behind.
deleteTx(db, rec, meta, eventID, fail) ==
  LET key == recordKey(rec[1], rec[2], rec[3])
      before == db.kv[key]
      db1 == [db EXCEPT !.kv = DeleteEntry(@, key)]
      version == nextAggregateVersion(db1.audit, rec[1], rec[2], rec[3])
      envelope == Envelope(eventID, "record.deleted", rec, version, meta,
                    [record_id |-> rec[3], collection |-> rec[2]])
      ins == IF before = NoRow THEN [db |-> db, err |-> "none"]
             ELSE insertAuditAndOutbox(db1, rec, meta, before.value, "", envelope, fail)
  IN  CASE fail = "load"   -> [db |-> db, err |-> "load record before delete", deleted |-> FALSE]
        [] fail = "commit" /\ before = NoRow -> [db |-> db, err |-> "commit", deleted |-> FALSE]
        [] before = NoRow  -> [db |-> db, err |-> "none", deleted |-> FALSE]
        [] fail = "delete" -> [db |-> db, err |-> "delete record", deleted |-> FALSE]
        [] fail = "version" -> [db |-> db1, err |-> "query aggregate version", deleted |-> TRUE]
        [] fail = "commit" -> [db |-> ins.db, err |-> "commit", deleted |-> TRUE]
        [] OTHER           -> [db |-> ins.db, err |-> ins.err, deleted |-> TRUE]

\* Whether the transaction got as far as drawing its event id.
DrewUUID(existed, isDelete, fail) ==
  /\ fail \notin {"load", "upsert", "delete", "reload", "version"}
  /\ (isDelete => existed)

\* A fault that strikes after the event id was drawn loses that id; the
\* number of lost ids is bounded.
MayFail(fail) ==
  fail \in {"audit", "outbox", "commit"} => uuidCounter - Len(audit) < MaxFaults

\* What the caller sees: whether an error came back, and the deleted flag.
Call(op, key, fail, err, deleted) ==
  [op |-> op, key |-> key, fail |-> fail, err |-> (err # "none"), deleted |-> deleted]

Writes == Len(audit) + kvOps

Commit(db) ==
  /\ kv' = db.kv
  /\ audit' = db.audit
  /\ outbox' = db.outbox

\* RecordEventStore.UpsertWithEvents
UpsertWithEvents(rec, value, m, fail) ==
  LET meta == Normalize(m, now)
      out == upsertTx(DB, rec, value, meta, uuidCounter + 1, fail)
  IN  /\ MayFail(fail)
      /\ Commit(WriteTX(DB, out))
      /\ uuidCounter' = IF DrewUUID(TRUE, FALSE, fail) THEN uuidCounter + 1 ELSE uuidCounter
      /\ last' = Call("upsert", KeyOf(rec), fail, out.err, FALSE)
      /\ UNCHANGED <<kvOps, now, faults, dispVars>>

\* RecordEventStore.DeleteWithEvents
DeleteWithEvents(rec, m, fail) ==
  LET meta == Normalize(m, now)
      out == deleteTx(DB, rec, meta, uuidCounter + 1, fail)
  IN  /\ MayFail(fail)
      /\ kv[KeyOf(rec)] = NoRow => fail \in {"none", "load", "commit"}
      /\ Commit(WriteTX(DB, out))
      /\ uuidCounter' = IF DrewUUID(kv[KeyOf(rec)] # NoRow, TRUE, fail)
                        THEN uuidCounter + 1 ELSE uuidCounter
      /\ last' = Call("delete", KeyOf(rec), fail, out.err,
                      IF out.err = "none" THEN out.deleted ELSE FALSE)
      /\ UNCHANGED <<kvOps, now, faults, dispVars>>

\* RecordEventStore.Get: the record, or NotFound.
Get(rec) == kv[KeyOf(rec)]

\* Repository.Upsert (the /v1/kv endpoint): the state row alone, no events.
kvUpsertTx(db, key, category, value, t, fail) ==
  LET db1 == [db EXCEPT !.kv = UpsertEntry(@, key, category, value, t)]
  IN  CASE fail = "upsert" -> [db |-> db,  err |-> "upsert entry"]
        [] fail = "reload" -> [db |-> db1, err |-> "load upserted entry"]
        [] fail = "commit" -> [db |-> db1, err |-> "commit"]
        [] OTHER           -> [db |-> db1, err |-> "none"]

\* Repository.Delete: the state row alone, no events.
kvDeleteTx(db, key, fail) ==
  LET db1 == [db EXCEPT !.kv = DeleteEntry(@, key)]
  IN  CASE fail = "delete" -> [db |-> db,  err |-> "delete entry"]
        [] fail = "commit" -> [db |-> db1, err |-> "commit"]
        [] OTHER           -> [db |-> db1, err |-> "none"]

\* KVService.Upsert -> Repository.Upsert
KVUpsert(key, category, value, fail) ==
  LET out == kvUpsertTx(DB, key, category, value, now, fail)
  IN  /\ Commit(WriteTX(DB, out))
      /\ kvOps' = IF out.err = "none" THEN kvOps + 1 ELSE kvOps
      /\ last' = Call("kv.upsert", key, fail, out.err, FALSE)
      /\ UNCHANGED <<uuidCounter, now, faults, dispVars>>

\* KVService.Delete -> Repository.Delete
KVDelete(key, fail) ==
  LET out == kvDeleteTx(DB, key, fail)
  IN  /\ Commit(WriteTX(DB, out))
      /\ kvOps' = IF out.err = "none" THEN kvOps + 1 ELSE kvOps
      /\ last' = Call("kv.delete", key, fail, out.err, out.err = "none" /\ kv[key] # NoRow)
      /\ UNCHANGED <<uuidCounter, now, faults, dispVars>>

\* Mutant of trg_audit_events_no_update: the trigger is missing, the UPDATE
\* rewrites the row's actor.
noUpdateTrigger(rows, i, actor) ==
  [rows |-> [rows EXCEPT ![i].actor = actor], err |-> "none"]

\* trg_audit_events_no_update: BEFORE UPDATE ON audit_events raises ABORT,
\* so the statement changes nothing and returns an error.
trg_audit_events_no_update(rows, i, actor) ==
  [rows |-> rows, err |-> "audit_events are immutable"]

\* trg_audit_events_no_delete: BEFORE DELETE ON audit_events raises ABORT.
trg_audit_events_no_delete(rows, i) ==
  [rows |-> rows, err |-> "audit_events are immutable"]

\* A write transaction that first deletes a state row and then issues an
\* UPDATE (kind "update") or DELETE (kind "delete") against audit row i,
\* returning the statement's error as every transaction callback here does.
tamperTx(db, key, i, kind) ==
  LET db1 == [db EXCEPT !.kv = DeleteEntry(@, key)]
      st == IF kind = "update"
            THEN trg_audit_events_no_update(db1.audit, i, "mallory")
            ELSE trg_audit_events_no_delete(db1.audit, i)
  IN  [db |-> [db1 EXCEPT !.audit = st.rows], err |-> st.err]

AuditTamper(key, i, kind) ==
  LET out == tamperTx(DB, key, i, kind)
  IN  /\ Commit(WriteTX(DB, out))
      /\ last' = Call("audit." \o kind, key, "none", out.err, FALSE)
      /\ UNCHANGED <<uuidCounter, kvOps, now, faults, dispVars>>

\* Time passes.
Tick ==
  /\ now < MaxTick
  /\ now' = now + 1
  /\ UNCHANGED <<storeVars, dispVars>>

\* NewOutboxDispatcher's normalisation of batchSize.
NewOutboxDispatcher(n) == IF n <= 0 THEN DefaultBatchSize ELSE n

Workers == {1, 2}

NoTick == [due |-> {}, fetched |-> <<>>, published |-> <<>>]

\* The store holding these outbox rows and a dispatcher constructed with
\* batch size n, not yet ticking.
\* The goroutines that call Start and Close on the dispatcher.
Callers == {1, 2}

\* The contexts Start can create, one per call.
Contexts == 1..MaxCalls

NoCall == [op |-> "none", pc |-> "idle", cancel |-> 0]

NoSchemaCall == [op |-> "none", pc |-> "idle", arg |-> "none", loaded |-> "none",
                 overlapped |-> FALSE, ret |-> "none"]

\* The tenants of the API keys, the {collection} path segments, the
\* operations and the Idempotency-Key headers ("" when the header is absent)
\* of the requests.  Tokens carry no surrounding white space.
IdemTenants == {"t1", "t1/users"}
IdemCollections == {"users", "bulk-upsert"}
IdemOps == {"bulk-upsert", "bulk-delete"}
IdemTokens == {"", "k", "bulk-upsert/k"}
IdemTuples == IdemTenants \X IdemCollections \X IdemOps \X IdemTokens

idempotencyKey(tenantID, collection, op, token) ==
  "idempotency/" \o tenantID \o "/" \o collection \o "/" \o op \o "/" \o token

KeyOfTuple(x) == idempotencyKey(x[1], x[2], x[3], x[4])
IdemKeys == {KeyOfTuple(x) : x \in IdemTuples}

\* The caller is in no write operation.
NoTx == [pc |-> "idle", op |-> "none", arg |-> <<>>, saved |-> <<>>, before |-> NoRow,
         version |-> 0, overlapped |-> FALSE, result |-> "none"]

\* The caller serves no bulk request.
NoBulkCall == [pc |-> "idle"]

\* The records the service is called with: two of different tenants whose
\* components hold a "/", one without, one whose id has a space, one whose
\* id is empty.
IdentityRecords ==
  { <<"t1", "users", "a/b">>, <<"t1/users", "a", "b">>, <<"t1", "users", "u1">>,
    <<"t1", "users", "u 1">>, <<"t1", "users", "">> }

\* keyPattern ^[a-zA-Z0-9._:/-]+$ over the strings in use: those made of its
\* characters only, at least one.
keyPattern == {"t1", "t1/users", "users", "a", "b", "a/b", "u1"}

ValidateKey(key) == key # "" /\ key \in keyPattern
ValidateCategory(category) == category # "" /\ category \in keyPattern

\* Record.Validate, and the three checks of RecordService.Get and Delete.
RecordValidate(rec) ==
  ValidateKey(rec[1]) /\ ValidateCategory(rec[2]) /\ ValidateKey(rec[3])

IdentityKeys == {KeyOf(r) : r \in IdentityRecords}

\* No RecordService call has been made.
NoIdent == [op |-> "none", rec |-> <<>>, err |-> FALSE, got |-> NoRow,
            written |-> [r \in IdentityRecords |-> "none"]]

\* The ids a bulk request names, the empty one among them, and the keys of
\* the records they name in the tenant's collection.
BulkIds == {"u1", "a", ""}
BulkKeys == {recordKey("t1", "users", id) : id \in BulkIds}

\* No BulkUpsert or BulkDelete call has been made.
NoBulkRun == [pc |-> "idle", op |-> "none", items |-> <<>>, k |-> 0, base |-> 0,
              err |-> "none", result |-> <<>>, deleted |-> 0, n |-> 0]

\* No read has been served.
NoRead == [op |-> "none", arg |-> <<>>, parallel |-> FALSE,
           snap |-> [kv |-> <<>>, audit |-> <<>>, outbox |-> <<>>], result |-> <<>>]

\* domain.EventEnvelope{}: the zero value Normalize returns beside an error.
EmptyEnvelope ==
  [event_id |-> "", event_type |-> "", schema_version |-> 0, tenant_id |-> "",
   aggregate_type |-> "", aggregate_id |-> "", aggregate_version |-> 0,
   occurred_at |-> 0, actor |-> "", source |-> "", payload |-> ""]

\* No EventCodec.Normalize call is in progress.
NoNormalize == [pc |-> "idle"]

\* No ReplayTenantEvents call has been made.
NoReplay == [status |-> "none"]

InitKeys(keys, n, auditRows, rows, run) ==
  /\ kv = [k \in keys |-> NoRow]
  /\ audit = auditRows
  /\ outbox = rows
  /\ uuidCounter = 0
  /\ kvOps = 0
  /\ now = 0
  /\ faults = 0
  /\ last = [op |-> "none", key |-> "", fail |-> "none", err |-> FALSE, deleted |-> FALSE]
  /\ pc = [w \in Workers |-> "idle"]
  /\ batch = [w \in Workers |-> <<>>]
  /\ outcome = [w \in Workers |-> "none"]
  /\ pubCount = <<>>
  /\ failCount = <<>>
  /\ metrics = [w \in Workers |-> [success |-> 0, failure |-> 0, dead |-> 0]]
  /\ restarts = 0
  /\ batchSize = [w \in Workers |-> NewOutboxDispatcher(n)]
  /\ tick = [w \in Workers |-> NoTick]
  /\ mu = 0
  /\ cancel = 0
  /\ wg = 0
  /\ ctxDone = {}
  /\ loops = [c \in Contexts |-> "none"]
  /\ calls = [t \in Callers |-> NoCall]
  /\ nCalls = 0
  /\ replay = run
  /\ schemaRepo = "none"
  /\ schemaCache = "none"
  /\ schemaCalls = [t \in Callers |-> NoSchemaCall]
  /\ nSchemaCalls = 0
  /\ idemCache = [k \in IdemKeys |-> NoRow]
  /\ bulkCalls = [t \in Callers |-> NoBulkCall]
  /\ nBulkCalls = 0
  /\ http = [n |-> 0, tenant |-> "none", op |-> "none", observed |-> {}]
  /\ writerConns = {}
  /\ txs = [t \in Callers |-> NoTx]
  /\ nTxs = 0
  /\ norm = NoNormalize
  /\ marks = [w \in Workers |-> [dispatched |-> 0, failed |-> 0, dead |-> 0]]
  /\ ident = NoIdent
  /\ rd = NoRead
  /\ bulkRun = NoBulkRun

\* The state after construction over the tables given.
InitAll(n, auditRows, rows, run) == InitKeys(Keys, n, auditRows, rows, run)

\* Empty audit table, the outbox table as given, no replay.
InitFrom(n, rows) == InitAll(n, <<>>, rows, NoReplay)

InitWith(n) == InitFrom(n, <<>>)

\* The service as app.Run leaves it: empty tables, the dispatcher constructed.
Init == InitWith(0)

\* The same for any batch size given to NewOutboxDispatcher.
InitDispatch == \E n \in 0..MaxBatch : InitWith(n)

RecordUpsert ==
  \E rec \in Records, value \in Values, m \in Metas, fail \in UpsertFails \cup {"none"} :
    Writes < MaxWrites /\ UpsertWithEvents(rec, value, m, fail)

RecordDelete ==
  \E rec \in Records, m \in Metas, fail \in DeleteFails \cup {"none"} :
    Writes < MaxWrites /\ DeleteWithEvents(rec, m, fail)

KVPut ==
  \E key \in Keys, category \in KVCategories, value \in KVValues,
     fail \in KVUpsertFails \cup {"none"} :
    Writes < MaxWrites /\ KVUpsert(key, category, value, fail)

KVDel ==
  \E key \in Keys, fail \in KVDeleteFails \cup {"none"} :
    Writes < MaxWrites /\ KVDelete(key, fail)

Tamper ==
  \E key \in Keys, i \in 1..Len(audit), kind \in {"update", "delete"} :
    AuditTamper(key, i, kind)

\* The record store and the KV repository over the same tables.
Next == RecordUpsert \/ RecordDelete \/ KVPut \/ KVDel \/ Tamper \/ Tick

Spec == Init /\ [][Next]_vars

(***************************************************************************)
(* The outbox repository and the dispatcher.                               *)
(***************************************************************************)

\* time.Time rendered with time.RFC3339Nano and read back with time.Parse.
FormatRFC3339Nano(t) == <<"rfc3339nano", t>>
ParseRFC3339Nano(str) == str[2]

\* Mutant of Take: the last n rows instead of the first n.
TakeLast(rows, n) ==
  SubSeq(rows, IF Len(rows) < n THEN 1 ELSE Len(rows) - n + 1, Len(rows))

Take(rows, n) == SubSeq(rows, 1, IF Len(rows) < n THEN Len(rows) ELSE n)

\* Mutant of FetchPending: the status is not looked at.
FetchPendingAnyStatus(rows, t, limit) ==
  LET lim == IF limit <= 0 THEN DefaultBatchSize ELSE limit
      Due(r) == r.next_attempt_at <= t
  IN  Take(SelectSeq(rows, Due), lim)

\* Mutant of FetchPending: next_attempt_at < now instead of <=.
FetchPendingStrict(rows, t, limit) ==
  LET lim == IF limit <= 0 THEN DefaultBatchSize ELSE limit
      Due(r) == r.status = "pending" /\ r.next_attempt_at < t
  IN  Take(SelectSeq(rows, Due), lim)

\* Mutant of FetchPending: ORDER BY id DESC.
FetchPendingDescending(rows, t, limit) ==
  LET lim == IF limit <= 0 THEN DefaultBatchSize ELSE limit
      Due(r) == r.status = "pending" /\ r.next_attempt_at <= t
      due == SelectSeq(rows, Due)
  IN  Take([i \in 1..Len(due) |-> due[Len(due) + 1 - i]], lim)

\* WHERE status = 'pending' AND next_attempt_at <= now ORDER BY id ASC LIMIT limit
FetchPending(rows, t, limit) ==
  LET lim == IF limit <= 0 THEN DefaultBatchSize ELSE limit
      Due(r) == r.status = "pending" /\ r.next_attempt_at <= t
  IN  Take(SelectSeq(rows, Due), lim)

\* Mutant of MarkDispatched: last_error is left as it was.
MarkDispatchedKeepsError(rows, id, t) ==
  [i \in 1..Len(rows) |->
     IF rows[i].id = id
     THEN [rows[i] EXCEPT !.status = "dispatched", !.dispatched_at = t]
     ELSE rows[i]]

\* UPDATE outbox_events SET status, dispatched_at, last_error WHERE id = ?
MarkDispatched(rows, id, t) ==
  [i \in 1..Len(rows) |->
     IF rows[i].id = id
     THEN [rows[i] EXCEPT !.status = "dispatched", !.dispatched_at = t, !.last_error = ""]
     ELSE rows[i]]

\* Mutant of MarkFailed: the attempts column is left out of the update.
MarkFailedKeepsAttempts(rows, id, attempts, nextAttemptAt, errMsg) ==
  LET parsed == ParseRFC3339Nano(nextAttemptAt)
  IN  [i \in 1..Len(rows) |->
         IF rows[i].id = id
         THEN [rows[i] EXCEPT !.next_attempt_at = parsed, !.last_error = errMsg]
         ELSE rows[i]]

\* UPDATE outbox_events SET attempts, next_attempt_at, last_error WHERE id = ?
MarkFailed(rows, id, attempts, nextAttemptAt, errMsg) ==
  LET parsed == ParseRFC3339Nano(nextAttemptAt)
  IN  [i \in 1..Len(rows) |->
         IF rows[i].id = id
         THEN [rows[i] EXCEPT !.attempts = attempts, !.next_attempt_at = parsed,
                              !.last_error = errMsg]
         ELSE rows[i]]

\* OutboxRepository.MarkDead: the row of this id becomes dead with the given
\* attempts and error.
MarkDead(rows, id, attempts, errMsg) ==
  [i \in 1..Len(rows) |->
     IF rows[i].id = id
     THEN [rows[i] EXCEPT !.status = "dead", !.attempts = attempts, !.last_error = errMsg]
     ELSE rows[i]]

\* Mutant of backoffDuration: linear in the attempt number.
backoffLinear(attempt) ==
  IF attempt <= 1 THEN 1 ELSE attempt

\* Mutant of backoffDuration: the five-minute cap is left out.
backoffUncapped(attempt) ==
  IF attempt <= 1 THEN 1 ELSE attempt * attempt

\* backoffDuration, in seconds.
backoffDuration(attempt) ==
  IF attempt <= 1 THEN 1
  ELSE IF attempt * attempt > 300 THEN 300 ELSE attempt * attempt

\* Mutant of markFailure: the retry budget test is > instead of >=.
markFailureOneMore(rows, event, errMsg, t) ==
  LET attempts == event.attempts + 1
  IN  IF attempts > maxRetry
      THEN [rows |-> MarkDead(rows, event.id, attempts, errMsg), dead |-> TRUE]
      ELSE [rows |-> MarkFailed(rows, event.id, attempts,
                       FormatRFC3339Nano(t + backoffDuration(attempts)), errMsg),
            dead |-> FALSE]

\* OutboxDispatcher.markFailure on the fetched copy of the row.
markFailure(rows, event, errMsg, t) ==
  LET attempts == event.attempts + 1
  IN  IF attempts >= maxRetry
      THEN [rows |-> MarkDead(rows, event.id, attempts, errMsg), dead |-> TRUE]
      ELSE [rows |-> MarkFailed(rows, event.id, attempts,
                       FormatRFC3339Nano(t + backoffDuration(attempts)), errMsg),
            dead |-> FALSE]

\* json.Unmarshal of the payload into an EventEnvelope succeeds.
Decodes(json) == \A i \in 1..Len(json) : Len(json[i]) = 2

CountOf(counts, id) == IF id \in DOMAIN counts THEN counts[id] ELSE 0

Bump(counts, id) ==
  LET n == IF Len(counts) < id THEN id ELSE Len(counts)
  IN  [i \in 1..n |-> CountOf(counts, i) + (IF i = id THEN 1 ELSE 0)]

\* The ids of the rows that are pending and due at time t.
DueIds(rows, t) ==
  {rows[i].id : i \in {j \in 1..Len(rows) :
                        rows[j].status = "pending" /\ rows[j].next_attempt_at <= t}}

\* dispatchBatch, first statement: FetchPending.  An error ends the batch.
Fetch(w, fail) ==
  /\ pc[w] = "idle"
  /\ IF fail
     THEN /\ faults < MaxFaults
          /\ faults' = faults + 1
          /\ UNCHANGED <<pc, batch, tick>>
     ELSE /\ batch' = [batch EXCEPT ![w] = FetchPending(outbox, now, batchSize[w])]
          /\ pc' = [pc EXCEPT ![w] = IF batch'[w] = <<>> THEN "idle" ELSE "publish"]
          /\ tick' = [tick EXCEPT ![w] =
                        IF batch'[w] = <<>> THEN NoTick
                        ELSE [due |-> DueIds(outbox, now),
                              fetched |-> [i \in 1..Len(batch'[w]) |-> batch'[w][i].id],
                              published |-> <<>>]]
          /\ UNCHANGED faults
  /\ UNCHANGED <<kv, audit, outbox, uuidCounter, kvOps, now, last,
                 outcome, pubCount, failCount, metrics, restarts, batchSize, lifeVars, auxVars>>

\* dispatchBatch, loop body up to the publisher's answer for the next event.
PublishStep(w, ok) ==
  /\ pc[w] = "publish"
  /\ LET event == Head(batch[w])
     IN  IF ~Decodes(event.payload_json)
         THEN /\ outcome' = [outcome EXCEPT ![w] = "decode payload: invalid JSON"]
              /\ UNCHANGED <<pubCount, tick>>
         ELSE /\ pubCount' = Bump(pubCount, event.id)
              /\ tick' = [tick EXCEPT ![w].published = Append(@, event.id)]
              /\ outcome' = [outcome EXCEPT ![w] = IF ok THEN "ok" ELSE "publish failed"]
  /\ pc' = [pc EXCEPT ![w] = "mark"]
  /\ UNCHANGED <<storeVars, now, batch, failCount, metrics, restarts, batchSize, lifeVars, auxVars>>

\* Mutant of MarkStep: a failed event ends the batch.
MarkStepFailureEndsBatch(w, fail) ==
  /\ pc[w] = "mark"
  /\ LET event == Head(batch[w])
         mf == markFailure(outbox, event, outcome[w], now)
         rest == Tail(batch[w])
     IN  IF fail
         THEN /\ faults < MaxFaults
              /\ faults' = faults + 1
              /\ batch' = [batch EXCEPT ![w] = <<>>]
              /\ pc' = [pc EXCEPT ![w] = "idle"]
              /\ tick' = [tick EXCEPT ![w] = NoTick]
              /\ UNCHANGED <<outbox, metrics, failCount>>
         ELSE /\ batch' = [batch EXCEPT ![w] = IF outcome[w] = "ok" THEN rest ELSE <<>>]
              /\ pc' = [pc EXCEPT ![w] = IF batch'[w] = <<>> THEN "idle" ELSE "publish"]
              /\ tick' = [tick EXCEPT ![w] = IF batch'[w] = <<>> THEN NoTick ELSE @]
              /\ UNCHANGED faults
              /\ IF outcome[w] = "ok"
                 THEN /\ outbox' = MarkDispatched(outbox, event.id, now)
                      /\ metrics' = [metrics EXCEPT ![w].success = @ + 1]
                      /\ UNCHANGED failCount
                 ELSE /\ outbox' = mf.rows
                      /\ metrics' = [metrics EXCEPT
                                       ![w].failure = @ + 1,
                                       ![w].dead = @ + (IF mf.dead THEN 1 ELSE 0)]
                      /\ failCount' = Bump(failCount, event.id)
  /\ outcome' = [outcome EXCEPT ![w] = "none"]
  /\ UNCHANGED <<kv, audit, uuidCounter, kvOps, now, last, pubCount, restarts, batchSize, lifeVars, auxVars>>

\* Mutant of MarkStep: after an error of the mark call the batch goes on.
MarkStepFaultSkipsEvent(w, fail) ==
  /\ pc[w] = "mark"
  /\ LET event == Head(batch[w])
         mf == markFailure(outbox, event, outcome[w], now)
         rest == Tail(batch[w])
     IN  IF fail
         THEN /\ faults < MaxFaults
              /\ faults' = faults + 1
              /\ batch' = [batch EXCEPT ![w] = rest]
              /\ pc' = [pc EXCEPT ![w] = IF rest = <<>> THEN "idle" ELSE "publish"]
              /\ tick' = [tick EXCEPT ![w] = IF rest = <<>> THEN NoTick ELSE @]
              /\ UNCHANGED <<outbox, metrics, failCount>>
         ELSE /\ batch' = [batch EXCEPT ![w] = rest]
              /\ pc' = [pc EXCEPT ![w] = IF rest = <<>> THEN "idle" ELSE "publish"]
              /\ tick' = [tick EXCEPT ![w] = IF rest = <<>> THEN NoTick ELSE @]
              /\ UNCHANGED faults
              /\ IF outcome[w] = "ok"
                 THEN /\ outbox' = MarkDispatched(outbox, event.id, now)
                      /\ metrics' = [metrics EXCEPT ![w].success = @ + 1]
                      /\ UNCHANGED failCount
                 ELSE /\ outbox' = mf.rows
                      /\ metrics' = [metrics EXCEPT
                                       ![w].failure = @ + 1,
                                       ![w].dead = @ + (IF mf.dead THEN 1 ELSE 0)]
                      /\ failCount' = Bump(failCount, event.id)
  /\ outcome' = [outcome EXCEPT ![w] = "none"]
  /\ UNCHANGED <<kv, audit, uuidCounter, kvOps, now, last, pubCount, restarts, batchSize, lifeVars, auxVars>>

\* Mutant of MarkStep: a MarkDispatched that fails is handled as a failed
\* attempt of the event.
MarkStepFaultCountsAttempt(w, fail) ==
  /\ pc[w] = "mark"
  /\ LET event == Head(batch[w])
         mf == markFailure(outbox, event, outcome[w], now)
         rest == Tail(batch[w])
     IN  IF fail
         THEN /\ faults < MaxFaults
              /\ faults' = faults + 1
              /\ batch' = [batch EXCEPT ![w] = <<>>]
              /\ pc' = [pc EXCEPT ![w] = "idle"]
              /\ tick' = [tick EXCEPT ![w] = NoTick]
              /\ outbox' = mf.rows
              /\ UNCHANGED <<metrics, failCount>>
         ELSE /\ batch' = [batch EXCEPT ![w] = rest]
              /\ pc' = [pc EXCEPT ![w] = IF rest = <<>> THEN "idle" ELSE "publish"]
              /\ tick' = [tick EXCEPT ![w] = IF rest = <<>> THEN NoTick ELSE @]
              /\ UNCHANGED faults
              /\ IF outcome[w] = "ok"
                 THEN /\ outbox' = MarkDispatched(outbox, event.id, now)
                      /\ metrics' = [metrics EXCEPT ![w].success = @ + 1]
                      /\ UNCHANGED failCount
                 ELSE /\ outbox' = mf.rows
                      /\ metrics' = [metrics EXCEPT
                                       ![w].failure = @ + 1,
                                       ![w].dead = @ + (IF mf.dead THEN 1 ELSE 0)]
                      /\ failCount' = Bump(failCount, event.id)
  /\ outcome' = [outcome EXCEPT ![w] = "none"]
  /\ UNCHANGED <<kv, audit, uuidCounter, kvOps, now, last, pubCount, restarts, batchSize, lifeVars, auxVars>>

\* dispatchBatch, loop body after the publisher's answer: MarkDispatched or
\* markFailure, the counters, and the move to the next event; an error of the
\* mark ends the batch.
MarkStep(w, fail) ==
  /\ pc[w] = "mark"
  /\ LET event == Head(batch[w])
         mf == markFailure(outbox, event, outcome[w], now)
         rest == Tail(batch[w])
     IN  IF fail
         THEN /\ faults < MaxFaults
              /\ faults' = faults + 1
              /\ batch' = [batch EXCEPT ![w] = <<>>]
              /\ pc' = [pc EXCEPT ![w] = "idle"]
              /\ tick' = [tick EXCEPT ![w] = NoTick]
              /\ UNCHANGED <<outbox, metrics, failCount>>
         ELSE /\ batch' = [batch EXCEPT ![w] = rest]
              /\ pc' = [pc EXCEPT ![w] = IF rest = <<>> THEN "idle" ELSE "publish"]
              /\ tick' = [tick EXCEPT ![w] = IF rest = <<>> THEN NoTick ELSE @]
              /\ UNCHANGED faults
              /\ IF outcome[w] = "ok"
                 THEN /\ outbox' = MarkDispatched(outbox, event.id, now)
                      /\ metrics' = [metrics EXCEPT ![w].success = @ + 1]
                      /\ UNCHANGED failCount
                 ELSE /\ outbox' = mf.rows
                      /\ metrics' = [metrics EXCEPT
                                       ![w].failure = @ + 1,
                                       ![w].dead = @ + (IF mf.dead THEN 1 ELSE 0)]
                      /\ failCount' = Bump(failCount, event.id)
  /\ outcome' = [outcome EXCEPT ![w] = "none"]
  /\ UNCHANGED <<kv, audit, uuidCounter, kvOps, now, last, pubCount, restarts, batchSize, lifeVars, auxVars>>

\* The process ends wherever the worker is and a new dispatcher is
\* constructed with the same arguments and started over the same outbox.
Restart(w) ==
  /\ restarts < MaxRestarts
  /\ restarts' = restarts + 1
  /\ pc' = [pc EXCEPT ![w] = "idle"]
  /\ batch' = [batch EXCEPT ![w] = <<>>]
  /\ outcome' = [outcome EXCEPT ![w] = "none"]
  /\ metrics' = [metrics EXCEPT ![w] = [success |-> 0, failure |-> 0, dead |-> 0]]
  /\ tick' = [tick EXCEPT ![w] = NoTick]
  /\ UNCHANGED <<storeVars, now, pubCount, failCount, batchSize, lifeVars, auxVars>>

\* The clock reaches the earliest retry time still ahead.
AdvanceTime ==
  LET ahead == {outbox[i].next_attempt_at : i \in
                  {j \in 1..Len(outbox) :
                     outbox[j].status = "pending" /\ outbox[j].next_attempt_at > now}}
  IN  /\ ahead # {}
      /\ now' = CHOOSE t \in ahead : \A u \in ahead : t <= u
      /\ UNCHANGED <<storeVars, dispVars>>

\* A record write that commits, as the dispatcher's producer.
Enqueue ==
  \E rec \in {<<"t1", "users", "u1">>}, m \in Metas :
    /\ Len(outbox) < MaxRows
    /\ UpsertWithEvents(rec, "A", m, "none")

FetchStep(W, F) == \E w \in W, fail \in F : Fetch(w, fail)
Publish(W) == \E w \in W, ok \in BOOLEAN : PublishStep(w, ok)
Mark(W, F) == \E w \in W, fail \in F : MarkStep(w, fail)
Reconstruct(W) == \E w \in W : Restart(w)

\* One dispatcher worker at a time over the outbox; the database may fail
\* and the dispatcher may be replaced by a new one.
NextDispatch ==
  \/ Enqueue
  \/ FetchStep({1}, BOOLEAN)
  \/ Publish({1})
  \/ Mark({1}, BOOLEAN)
  \/ Reconstruct({1})
  \/ AdvanceTime

SpecDispatch == InitDispatch /\ [][NextDispatch]_vars

\* One worker that is never replaced, keeps ticking, and time advances.
NextFair ==
  \/ Enqueue
  \/ FetchStep({1}, BOOLEAN)
  \/ Publish({1})
  \/ Mark({1}, BOOLEAN)
  \/ AdvanceTime

FairDispatch ==
  /\ InitDispatch
  /\ [][NextFair]_vars
  /\ WF_vars(FetchStep({1}, BOOLEAN))
  /\ WF_vars(Publish({1}))
  /\ WF_vars(Mark({1}, BOOLEAN))
  /\ WF_vars(AdvanceTime)

\* One worker over an outbox that receives one row, ticking while time
\* advances; the database may fail and the process may stop and start again.
NextRestart ==
  \/ (Len(outbox) = 0 /\ Enqueue)
  \/ FetchStep({1}, BOOLEAN)
  \/ Publish({1})
  \/ Mark({1}, BOOLEAN)
  \/ Reconstruct({1})
  \/ AdvanceTime

FairRestart ==
  /\ InitDispatch
  /\ [][NextRestart]_vars
  /\ WF_vars(FetchStep({1}, BOOLEAN))
  /\ WF_vars(Publish({1}))
  /\ WF_vars(Mark({1}, BOOLEAN))
  /\ WF_vars(AdvanceTime)

\* Two dispatcher workers over the same outbox holding one row.
NextConc ==
  \/ (Len(outbox) = 0 /\ Enqueue)
  \/ FetchStep(Workers, {FALSE})
  \/ Publish(Workers)
  \/ Mark(Workers, {FALSE})
  \/ AdvanceTime

SpecConc == InitDispatch /\ [][NextConc]_vars

(***************************************************************************)
(* The dispatcher over an outbox table seeded with rows of every kind, as  *)
(* the dispatcher's unit tests seed their repository.                      *)
(***************************************************************************)
SeedKinds ==
  { [status |-> "pending", attempts |-> 0, next_attempt_at |-> 0, decodable |-> TRUE],
    [status |-> "pending", attempts |-> 0, next_attempt_at |-> 0, decodable |-> FALSE],
    [status |-> "pending", attempts |-> 3, next_attempt_at |-> 0, decodable |-> TRUE],
    [status |-> "pending", attempts |-> 4, next_attempt_at |-> 0, decodable |-> TRUE],
    [status |-> "pending", attempts |-> 4, next_attempt_at |-> 0, decodable |-> FALSE],
    [status |-> "pending", attempts |-> 0, next_attempt_at |-> 1, decodable |-> TRUE],
    [status |-> "dispatched", attempts |-> 1, next_attempt_at |-> 0, decodable |-> TRUE],
    [status |-> "dead", attempts |-> 5, next_attempt_at |-> 0, decodable |-> TRUE] }

\* The outbox row of id i of this kind: a row as insertAuditAndOutbox writes
\* it, then status, attempts, next_attempt_at and payload as the kind says.
SeedRow(i, kind) ==
  LET rec == <<"t1", "users", "u1">>
      meta == [actor |-> "api", source |-> "api", request_id |-> "req-1", occurred_at |-> 0]
      env == Envelope(i, "record.updated", rec, i, meta, "A")
      row == OutboxRow([j \in 1..(i - 1) |-> j], rec, env)
  IN  [row EXCEPT !.status = kind.status,
                  !.attempts = kind.attempts,
                  !.next_attempt_at = kind.next_attempt_at,
                  !.payload_json = IF kind.decodable THEN @ ELSE << <<"{">> >>,
                  !.dispatched_at = IF kind.status = "dispatched" THEN 0 ELSE @]

SeededOutboxes ==
  UNION { { [i \in 1..n |-> SeedRow(i, kinds[i])] : kinds \in [1..n -> SeedKinds] }
          : n \in 1..MaxRows }

InitSeeded == \E n \in 0..MaxBatch, rows \in SeededOutboxes : InitFrom(n, rows)

NextBatch ==
  \/ FetchStep({1}, BOOLEAN)
  \/ Publish({1})
  \/ Mark({1}, BOOLEAN)
  \/ AdvanceTime

SpecBatch == InitSeeded /\ [][NextBatch]_vars

(***************************************************************************)
(* Start, Close and the worker loop of one OutboxDispatcher, called from   *)
(* several goroutines.  Each action is one step between two               *)
(* synchronisation points of the code.                                     *)
(***************************************************************************)
\* What Start, Close and the loop's own control flow leave alone.
workVars == <<storeVars, now, pc, batch, outcome, pubCount, failCount, metrics,
              restarts, batchSize, tick, auxVars>>

Running == {c \in Contexts : loops[c] \in {"batch", "select"}}

\* A goroutine calls d.Start(ctx) or d.Close().
BeginCall(t, op) ==
  /\ calls[t].op = "none"
  /\ nCalls < MaxCalls
  /\ nCalls' = nCalls + 1
  /\ calls' = [calls EXCEPT ![t] = [op |-> op, pc |-> "lock", cancel |-> 0]]
  /\ UNCHANGED <<mu, cancel, wg, ctxDone, loops, workVars>>

\* d.mu.Lock()
Lock(t) ==
  /\ calls[t].pc = "lock"
  /\ mu = 0
  /\ mu' = t
  /\ calls' = [calls EXCEPT ![t].pc = "locked"]
  /\ UNCHANGED <<cancel, wg, ctxDone, loops, nCalls, workVars>>

\* Start after the lock: return if d.cancel != nil; otherwise make the
\* context, store its cancel function, d.wg.Add(1), go d.loop(ctx); the
\* deferred Unlock.
StartBody(t) ==
  /\ calls[t].op = "Start" /\ calls[t].pc = "locked"
  /\ IF cancel # 0
     THEN UNCHANGED <<cancel, wg, loops>>
     ELSE LET c == CHOOSE x \in Contexts :
                     loops[x] = "none" /\ \A y \in Contexts : loops[y] = "none" => x <= y
          IN  /\ cancel' = c
              /\ wg' = wg + 1
              /\ loops' = [loops EXCEPT ![c] = "batch"]
  /\ mu' = 0
  /\ calls' = [calls EXCEPT ![t] = NoCall]
  /\ UNCHANGED <<ctxDone, nCalls, workVars>>

\* Close after the lock: cancel := d.cancel; d.cancel = nil; d.mu.Unlock()
CloseSwap(t) ==
  /\ calls[t].op = "Close" /\ calls[t].pc = "locked"
  /\ calls' = [calls EXCEPT ![t].cancel = cancel, ![t].pc = "cancel"]
  /\ cancel' = 0
  /\ mu' = 0
  /\ UNCHANGED <<wg, ctxDone, loops, nCalls, workVars>>

\* if cancel != nil { cancel() }
CloseCancel(t) ==
  /\ calls[t].pc = "cancel"
  /\ ctxDone' = IF calls[t].cancel # 0 THEN ctxDone \cup {calls[t].cancel} ELSE ctxDone
  /\ calls' = [calls EXCEPT ![t].pc = "wait"]
  /\ UNCHANGED <<mu, cancel, wg, loops, nCalls, workVars>>

\* d.wg.Wait(); return nil
CloseWait(t) ==
  /\ calls[t].pc = "wait"
  /\ wg = 0
  /\ calls' = [calls EXCEPT ![t] = NoCall]
  /\ UNCHANGED <<mu, cancel, wg, ctxDone, loops, nCalls, workVars>>

\* loop: the dispatchBatch call of this iteration returns.
LoopBatch(c) ==
  /\ loops[c] = "batch"
  /\ loops' = [loops EXCEPT ![c] = "select"]
  /\ UNCHANGED <<mu, cancel, wg, ctxDone, calls, nCalls, workVars>>

\* loop: select takes the ticker case.
LoopTick(c) ==
  /\ loops[c] = "select"
  /\ loops' = [loops EXCEPT ![c] = "batch"]
  /\ UNCHANGED <<mu, cancel, wg, ctxDone, calls, nCalls, workVars>>

\* loop: select takes ctx.Done(), the loop returns, the deferred d.wg.Done().
LoopExit(c) ==
  /\ loops[c] = "select"
  /\ c \in ctxDone
  /\ loops' = [loops EXCEPT ![c] = "exited"]
  /\ wg' = wg - 1
  /\ UNCHANGED <<mu, cancel, ctxDone, calls, nCalls, workVars>>

CallStart == \E t \in Callers : BeginCall(t, "Start")
CallClose == \E t \in Callers : BeginCall(t, "Close")
AcquireLock == \E t \in Callers : Lock(t)
StartLocked == \E t \in Callers : StartBody(t)
CloseLocked == \E t \in Callers : CloseSwap(t)
CloseCancels == \E t \in Callers : CloseCancel(t)
CloseReturns == \E t \in Callers : CloseWait(t)
LoopDispatches == \E c \in Contexts : LoopBatch(c)
LoopTicks == \E c \in Contexts : LoopTick(c)
LoopExits == \E c \in Contexts : LoopExit(c)

NextLife ==
  \/ CallStart
  \/ CallClose
  \/ AcquireLock
  \/ StartLocked
  \/ CloseLocked
  \/ CloseCancels
  \/ CloseReturns
  \/ LoopDispatches
  \/ LoopTicks
  \/ LoopExits

SpecLife == Init /\ [][NextLife]_vars

\* Every call that has begun goes on, every dispatchBatch call returns, and
\* a select whose context is done does not take the ticker case for ever.
FairLife ==
  /\ SpecLife
  /\ WF_vars(AcquireLock) /\ WF_vars(StartLocked) /\ WF_vars(CloseLocked)
  /\ WF_vars(CloseCancels) /\ WF_vars(CloseReturns) /\ WF_vars(LoopDispatches)
  /\ \A c \in Contexts : SF_vars(LoopExit(c))

(***************************************************************************)
(* The audit trail reader and the tenant replay.                           *)
(***************************************************************************)
Reverse(seq) == [i \in 1..Len(seq) |-> seq[Len(seq) + 1 - i]]

\* Mutant of AuditTrailRepositoryList: the tenant_id condition is lost.
AuditTrailRepositoryListAnyTenant(rows, filter) ==
  LET Match(r) == filter.AfterID > 0 => r.id < filter.AfterID
  IN  Take(Reverse(SelectSeq(rows, Match)), filter.Limit)

\* Mutant of AuditTrailRepositoryList: oldest first, the cursor a lower bound.
AuditTrailRepositoryListAscending(rows, filter) ==
  LET Match(r) == /\ r.tenant_id = filter.TenantID
                  /\ filter.AfterID > 0 => r.id > filter.AfterID
  IN  Take(SelectSeq(rows, Match), filter.Limit)

\* AuditTrailRepository.List with the filter fields the replay sets:
\* WHERE tenant_id = ? [AND id < AfterID] ORDER BY id DESC LIMIT ?
AuditTrailRepositoryList(rows, filter) ==
  LET Match(r) == /\ r.tenant_id = filter.TenantID
                  /\ filter.AfterID > 0 => r.id < filter.AfterID
  IN  Take(Reverse(SelectSeq(rows, Match)), filter.Limit)

\* AuditService.List: the limit is defaulted and clamped, then the repository.
AuditServiceList(rows, filter) ==
  LET limit == IF filter.Limit <= 0 THEN DefaultAuditLimit
               ELSE IF filter.Limit > MaxAuditLimit THEN MaxAuditLimit
               ELSE filter.Limit
  IN  AuditTrailRepositoryList(rows, [filter EXCEPT !.Limit = limit])

\* NewEventCodec(upcasters...): a map from FromVersion to the upcaster, here
\* its ToVersion and whether its Upcast returns an error.
NoUpcasters == <<>>

\* Upcaster.Upcast of the test upcaster: the payload with a mark added.
Upcast(payload) == "upcasted(" \o payload \o ")"

\* The loop of EventCodec.Normalize: while v < current, look up the
\* upcaster of v, apply it to the payload, go to its ToVersion.
RECURSIVE NormalizeLoop(_, _, _)
NormalizeLoop(codec, v, payload) ==
  IF ~(v < CurrentEventSchemaVersion)
  THEN [err |-> "none", v |-> v, payload |-> payload]
  ELSE IF v \notin DOMAIN codec
       THEN [err |-> "missing upcaster", v |-> v, payload |-> payload]
       ELSE IF codec[v].fails
            THEN [err |-> "upcast", v |-> v, payload |-> payload]
            ELSE NormalizeLoop(codec, codec[v].to, Upcast(payload))

\* Mutant of EventCodecNormalize: the version reached is not written back.
EventCodecNormalizeKeepsVersion(codec, envelope) ==
  LET r == NormalizeLoop(codec, envelope.schema_version, envelope.payload)
  IN  IF r.err # "none"
      THEN [err |-> r.err, envelope |-> envelope]
      ELSE [err |-> "none", envelope |-> [envelope EXCEPT !.payload = r.payload]]

\* EventCodec.Normalize: the envelope with the version and payload the loop
\* ends with, or an error.
EventCodecNormalize(codec, envelope) ==
  LET r == NormalizeLoop(codec, envelope.schema_version, envelope.payload)
  IN  IF r.err # "none"
      THEN [err |-> r.err, envelope |-> EmptyEnvelope]
      ELSE [err |-> "none",
            envelope |-> [envelope EXCEPT !.schema_version = r.v, !.payload = r.payload]]

\* EventCodec.Normalize of a codec without upcasters: an envelope below the
\* current schema version is an error, any other is returned as it is.
CodecNormalize(envelope) == EventCodecNormalize(NoUpcasters, envelope)

\* The envelope ReplayTenantEvents builds from one audit row.
ReplayEnvelope(e) ==
  [event_id |-> e.event_id,
   event_type |-> e.action,
   schema_version |-> e.schema_version,
   tenant_id |-> e.tenant_id,
   aggregate_type |-> e.aggregate_type,
   aggregate_id |-> e.aggregate_id,
   aggregate_version |-> e.aggregate_version,
   occurred_at |-> e.occurred_at,
   actor |-> e.actor,
   source |-> e.source,
   payload |-> IF e.after_json # "" THEN e.after_json ELSE "{}"]

\* The ReplayEvent built from one audit row.
ReplayEvent(e) ==
  [Envelope |-> CodecNormalize(ReplayEnvelope(e)).envelope, AuditID |-> e.id]

\* ReplayTenantEvents from the cursor afterID on: the events handed to
\* applyFn, in the order of the calls (applyFn never fails).
RECURSIVE ReplayFrom(_, _, _, _)
ReplayFrom(rows, tenantID, size, afterID) ==
  LET events == AuditServiceList(rows, [TenantID |-> tenantID, AfterID |-> afterID,
                                        Limit |-> size])
  IN  IF events = <<>> THEN <<>>
      ELSE [i \in 1..Len(events) |-> ReplayEvent(events[i])]
             \o ReplayFrom(rows, tenantID, size, events[Len(events)].id)

ReplayTenantEvents(rows, tenantID, size) == ReplayFrom(rows, tenantID, size, 0)

\* The applier of the projection fixtures: created and updated set the
\* aggregate's data, deleted removes the aggregate.
ApplyToProjection(projection, ev) ==
  LET agg == ev.Envelope.aggregate_id
  IN  CASE ev.Envelope.event_type \in {"record.created", "record.updated"} ->
             [a \in DOMAIN projection \cup {agg} |->
                IF a = agg THEN ev.Envelope.payload ELSE projection[a]]
        [] ev.Envelope.event_type = "record.deleted" ->
             [a \in DOMAIN projection \ {agg} |-> projection[a]]
        [] OTHER -> projection

RECURSIVE FoldProjection(_, _)
FoldProjection(projection, evs) ==
  IF evs = <<>> THEN projection
  ELSE FoldProjection(ApplyToProjection(projection, Head(evs)), Tail(evs))

Tenants == {r[1] : r \in Records}

ReplayBatchSizes == {0, 1, 2}

(***************************************************************************)
(* One ReplayTenantEvents call, step by step, over an audit table seeded   *)
(* with rows of several tenants and schema versions, with a codec holding  *)
(* any set of one-step upcasters.                                          *)
(***************************************************************************)
\* Everything but the replay.
coreVars == <<storeVars, now, pc, batch, outcome, pubCount, failCount, metrics,
              restarts, batchSize, tick, lifeVars>>

notReplayVars == <<coreVars, schemaVars, idemVars, httpVars, txVars, extVars>>

SeedVersions == {CurrentEventSchemaVersion - 2, CurrentEventSchemaVersion - 1,
                 CurrentEventSchemaVersion}

\* The codecs NewEventCodec can build from one-step upcasters of the
\* versions below the current one.
Codecs ==
  UNION { { [v \in froms |-> [to |-> v + 1, fails |-> f[v]]] : f \in [froms -> BOOLEAN] }
          : froms \in SUBSET (SeedVersions \ {CurrentEventSchemaVersion}) }

\* The audit row of id i of a tenant and schema version, as
\* insertAuditAndOutbox writes it.
SeedAuditRow(i, kind) ==
  LET rec == <<kind.tenant, "users", "u1">>
      meta == [actor |-> "api", source |-> "api", request_id |-> "req-1", occurred_at |-> 0]
      env == Envelope(i, "record.updated", rec, i, meta, "A")
  IN  [AuditRow([j \in 1..(i - 1) |-> j], rec, meta, "A", "A", env)
         EXCEPT !.schema_version = kind.version]

SeededAudits ==
  LET Kinds == [tenant : Tenants, version : SeedVersions]
  IN  UNION { { [i \in 1..n |-> SeedAuditRow(i, kinds[i])] : kinds \in [1..n -> Kinds] }
              : n \in 1..MaxAudit }

\* The call ReplayTenantEvents(ctx, audit, codec, tenantID, size, applyFn)
\* at its first statement.
ReplayCall(codec, tenantID, size) ==
  [status |-> "running", pc |-> "list", codec |-> codec, tenantID |-> tenantID,
   size |-> size, afterID |-> 0, page |-> <<>>, applied |-> <<>>, err |-> "none"]

InitReplay ==
  \E rows \in SeededAudits, c \in Codecs, size \in ReplayBatchSizes \ {0} :
    InitAll(0, rows, <<>>, ReplayCall(c, "t1", size))

\* audit.List with the cursor: an error ends the replay, an empty page ends
\* it with nil, any other page is walked.
ReplayList(fail) ==
  /\ replay.status = "running" /\ replay.pc = "list"
  /\ LET events == AuditServiceList(audit, [TenantID |-> replay.tenantID,
                                            AfterID |-> replay.afterID,
                                            Limit |-> replay.size])
     IN  replay' =
           IF fail THEN [replay EXCEPT !.status = "error", !.err = "list audit events"]
           ELSE IF events = <<>> THEN [replay EXCEPT !.status = "ok"]
           ELSE [replay EXCEPT !.page = events, !.pc = "apply"]
  /\ UNCHANGED notReplayVars

\* Mutant of ReplayApply: an event that fails to normalize is passed over.
ReplayApplySkipsUnreadable(ok) ==
  /\ replay.status = "running" /\ replay.pc = "apply"
  /\ LET e == Head(replay.page)
         n == EventCodecNormalize(replay.codec, ReplayEnvelope(e))
         rest == Tail(replay.page)
         call == [AuditID |-> e.id, Envelope |-> n.envelope, ok |-> ok]
         next == [replay EXCEPT !.afterID = e.id, !.page = rest,
                                !.pc = IF rest = <<>> THEN "list" ELSE "apply"]
     IN  replay' =
           IF n.err # "none" THEN next
           ELSE IF ~ok
           THEN [replay EXCEPT !.applied = Append(@, call),
                               !.status = "error", !.err = "apply replay event"]
           ELSE [next EXCEPT !.applied = Append(@, call)]
  /\ UNCHANGED notReplayVars

\* The loop body for the next event of the page: build the envelope,
\* Normalize, applyFn, advance the cursor; either error ends the replay.
ReplayApply(ok) ==
  /\ replay.status = "running" /\ replay.pc = "apply"
  /\ LET e == Head(replay.page)
         n == EventCodecNormalize(replay.codec, ReplayEnvelope(e))
         rest == Tail(replay.page)
         call == [AuditID |-> e.id, Envelope |-> n.envelope, ok |-> ok]
         next == [replay EXCEPT !.afterID = e.id, !.page = rest,
                                !.pc = IF rest = <<>> THEN "list" ELSE "apply"]
     IN  replay' =
           IF n.err # "none"
           THEN [replay EXCEPT !.status = "error", !.err = "normalize event"]
           ELSE IF ~ok
           THEN [replay EXCEPT !.applied = Append(@, call),
                               !.status = "error", !.err = "apply replay event"]
           ELSE [next EXCEPT !.applied = Append(@, call)]
  /\ UNCHANGED notReplayVars

ReplayLists == \E fail \in BOOLEAN : ReplayList(fail)
ReplayApplies == \E ok \in BOOLEAN : ReplayApply(ok)

NextReplay == ReplayLists \/ ReplayApplies

SpecReplay == InitReplay /\ [][NextReplay]_vars

(***************************************************************************)
(* SchemaService over one (tenant, collection): Upsert, Delete and         *)
(* Validate called from several goroutines.  Each action is one operation  *)
(* on the sync.Map or on the repository.                                   *)
(***************************************************************************)
notSchemaVars == <<coreVars, replayVars, idemVars, httpVars, txVars, extVars>>

Schemas == {"S1", "S2"}
Datas == {"d1", "d2"}

\* santhosh.Schema.Validate: S1 accepts d1 only, S2 accepts d2 only.
Accepts(schema, data) ==
  \/ schema = "S1" /\ data = "d1"
  \/ schema = "S2" /\ data = "d2"

\* runValidation of the data against a compiled schema.
runValidation(schema, data) == IF Accepts(schema, data) THEN "pass" ELSE "violation"

\* Another call is running while caller t begins or runs.
OthersBusy(t) == \E u \in Callers \ {t} : schemaCalls[u].op # "none"

\* A goroutine calls Upsert(schema), Delete() or Validate(data); the calls
\* that are running now overlap with it.
BeginSchemaCall(t, op, arg) ==
  /\ schemaCalls[t].op = "none"
  /\ nSchemaCalls < MaxSchemaCalls
  /\ nSchemaCalls' = nSchemaCalls + 1
  /\ schemaCalls' =
       [u \in Callers |->
          IF u = t
          THEN [op |-> op, pc |-> "cache", arg |-> arg, loaded |-> "none",
                overlapped |-> OthersBusy(t), ret |-> "none"]
          ELSE IF schemaCalls[u].op # "none"
               THEN [schemaCalls[u] EXCEPT !.overlapped = TRUE]
               ELSE schemaCalls[u]]
  /\ UNCHANGED <<schemaRepo, schemaCache, notSchemaVars>>

\* Upsert and Delete: s.cache.Delete(tenantID + "/" + collection)
SchemaCacheDelete(t) ==
  /\ schemaCalls[t].op \in {"Upsert", "Delete"} /\ schemaCalls[t].pc = "cache"
  /\ schemaCache' = "none"
  /\ schemaCalls' = [schemaCalls EXCEPT ![t].pc = "repo"]
  /\ UNCHANGED <<schemaRepo, nSchemaCalls, notSchemaVars>>

\* Upsert: return s.repo.Upsert(...)
SchemaRepoUpsert(t) ==
  /\ schemaCalls[t].op = "Upsert" /\ schemaCalls[t].pc = "repo"
  /\ schemaRepo' = schemaCalls[t].arg
  /\ schemaCalls' = [schemaCalls EXCEPT ![t] = [NoSchemaCall EXCEPT !.ret = "stored"]]
  /\ UNCHANGED <<schemaCache, nSchemaCalls, notSchemaVars>>

\* Delete: return s.repo.Delete(...)
SchemaRepoDelete(t) ==
  /\ schemaCalls[t].op = "Delete" /\ schemaCalls[t].pc = "repo"
  /\ schemaRepo' = "none"
  /\ schemaCalls' = [schemaCalls EXCEPT ![t] =
                       [NoSchemaCall EXCEPT !.ret = IF schemaRepo = "none" THEN "absent"
                                                    ELSE "deleted"]]
  /\ UNCHANGED <<schemaCache, nSchemaCalls, notSchemaVars>>

\* Validate: s.cache.Load(cacheKey); on a hit, return runValidation(cached, data).
SchemaCacheLoad(t) ==
  /\ schemaCalls[t].op = "Validate" /\ schemaCalls[t].pc = "cache"
  /\ schemaCalls' =
       [schemaCalls EXCEPT ![t] =
          IF schemaCache # "none"
          THEN [NoSchemaCall EXCEPT !.ret = runValidation(schemaCache, schemaCalls[t].arg),
                                    !.arg = schemaCalls[t].arg,
                                    !.overlapped = schemaCalls[t].overlapped]
          ELSE [@ EXCEPT !.pc = "repo"]]
  /\ UNCHANGED <<schemaRepo, schemaCache, nSchemaCalls, notSchemaVars>>

\* Validate: s.repo.Get; ErrNotFound returns nil, otherwise the schema is
\* compiled.
SchemaRepoGet(t) ==
  /\ schemaCalls[t].op = "Validate" /\ schemaCalls[t].pc = "repo"
  /\ schemaCalls' =
       [schemaCalls EXCEPT ![t] =
          IF schemaRepo = "none"
          THEN [NoSchemaCall EXCEPT !.ret = "pass",
                                    !.arg = schemaCalls[t].arg,
                                    !.overlapped = schemaCalls[t].overlapped]
          ELSE [@ EXCEPT !.pc = "store", !.loaded = schemaRepo]]
  /\ UNCHANGED <<schemaRepo, schemaCache, nSchemaCalls, notSchemaVars>>

\* Validate: s.cache.Store(cacheKey, compiled); return runValidation(compiled, data)
SchemaCacheStore(t) ==
  /\ schemaCalls[t].op = "Validate" /\ schemaCalls[t].pc = "store"
  /\ schemaCache' = schemaCalls[t].loaded
  /\ schemaCalls' =
       [schemaCalls EXCEPT ![t] =
          [NoSchemaCall EXCEPT !.ret = runValidation(schemaCalls[t].loaded, schemaCalls[t].arg),
                               !.arg = schemaCalls[t].arg,
                               !.overlapped = schemaCalls[t].overlapped]]
  /\ UNCHANGED <<schemaRepo, nSchemaCalls, notSchemaVars>>

CallSchemaUpsert == \E t \in Callers, schema \in Schemas : BeginSchemaCall(t, "Upsert", schema)
CallSchemaDelete == \E t \in Callers : BeginSchemaCall(t, "Delete", "none")
CallSchemaValidate == \E t \in Callers, data \in Datas : BeginSchemaCall(t, "Validate", data)
CacheDeletes == \E t \in Callers : SchemaCacheDelete(t)
RepoUpserts == \E t \in Callers : SchemaRepoUpsert(t)
RepoDeletes == \E t \in Callers : SchemaRepoDelete(t)
CacheLoads == \E t \in Callers : SchemaCacheLoad(t)
RepoGets == \E t \in Callers : SchemaRepoGet(t)
CacheStores == \E t \in Callers : SchemaCacheStore(t)

NextSchema ==
  \/ CallSchemaUpsert
  \/ CallSchemaDelete
  \/ CallSchemaValidate
  \/ CacheDeletes
  \/ RepoUpserts
  \/ RepoDeletes
  \/ CacheLoads
  \/ RepoGets
  \/ CacheStores

SpecSchema == Init /\ [][NextSchema]_vars

(***************************************************************************)
(* The bulk-upsert and bulk-delete handlers with their idempotent-response *)
(* cache, served by several goroutines.  Each action is one call the       *)
(* handler makes on the KV service or on the record service.               *)
(***************************************************************************)
notIdemVars == <<coreVars, replayVars, schemaVars, httpVars, txVars, extVars>>

\* json.Marshal of the response payload and json.Unmarshal of the stored value.
MarshalPayload(payload) == <<"json", payload>>
UnmarshalPayload(value) == value[2]

\* readIdempotentResponse: a miss without a token or without a stored row,
\* otherwise the decoded payload of the row under the key.
readIdempotentResponse(table, tenantID, collection, op, token) ==
  LET key == idempotencyKey(tenantID, collection, op, token)
  IN  IF token = "" \/ table[key] = NoRow
      THEN [ok |-> FALSE, payload |-> "none"]
      ELSE [ok |-> TRUE, payload |-> UnmarshalPayload(table[key].value)]

\* The ids of the body: none, or the one record of the collection.  Only the
\* records of the model's store can be named.
BulkItems(x) ==
  IF <<x[1], x[2], "u1">> \in Records THEN {<<>>, <<"u1">>} ELSE {<<>>}

BulkReturn(call, status, payload, cached) ==
  [call EXCEPT !.pc = "done", !.status = status, !.resp = payload, !.cached = cached]

\* bulkUpsertRecords / bulkDeleteRecords up to the cache lookup: a hit is
\* written back with status 200 and the handler returns.
BulkBegin(t, x, items) ==
  LET hit == readIdempotentResponse(idemCache, x[1], x[2], x[3], x[4])
      call == [pc |-> "apply", tuple |-> x, items |-> items, status |-> 0,
               resp |-> "none", cached |-> FALSE, wrote |-> {}]
  IN  /\ bulkCalls[t].pc \in {"idle", "done"}
      /\ nBulkCalls < MaxBulkCalls
      /\ nBulkCalls' = nBulkCalls + 1
      /\ bulkCalls' = [bulkCalls EXCEPT ![t] =
                         IF hit.ok THEN BulkReturn(call, 200, hit.payload, TRUE) ELSE call]
      /\ UNCHANGED <<idemCache, notIdemVars>>

\* The audit ids a store call appended.
Appended(db) == (Len(audit) + 1)..Len(db.audit)

\* recordService.BulkUpsert: one Upsert, each its own write transaction, per
\* item; an error is answered by handleDomainError, without a cache entry.
BulkUpsertStep(t, value, m, fail) ==
  LET call == bulkCalls[t]
      x == call.tuple
      rec == <<x[1], x[2], call.items[1]>>
      out == upsertTx(DB, rec, value, Normalize(m, now), uuidCounter + 1, fail)
      db == WriteTX(DB, out)
  IN  /\ call.pc = "apply" /\ x[3] = "bulk-upsert"
      /\ IF call.items = <<>>
         THEN /\ fail = "none"
              /\ bulkCalls' = [bulkCalls EXCEPT ![t] =
                                 [call EXCEPT !.pc = "store", !.resp = [items |-> <<>>]]]
              /\ UNCHANGED <<storeVars>>
         ELSE /\ MayFail(fail)
              /\ Commit(db)
              /\ uuidCounter' = IF DrewUUID(TRUE, FALSE, fail)
                                THEN uuidCounter + 1 ELSE uuidCounter
              /\ last' = Call("upsert", KeyOf(rec), fail, out.err, FALSE)
              /\ bulkCalls' = [bulkCalls EXCEPT ![t] =
                   IF out.err # "none"
                   THEN BulkReturn(call, 500, "error", FALSE)
                   ELSE [call EXCEPT !.pc = "store", !.wrote = Appended(db),
                           !.resp = [items |-> <<[id |-> rec[3], data |-> value]>>]]]
              /\ UNCHANGED <<kvOps, faults>>
      /\ UNCHANGED <<idemCache, nBulkCalls, now, pc, batch, outcome, pubCount, failCount,
                     metrics, restarts, batchSize, tick, lifeVars, replayVars, schemaVars,
                     httpVars, txVars, extVars>>

\* recordService.BulkDelete: one Delete per id, counting the rows deleted.
BulkDeleteStep(t, m, fail) ==
  LET call == bulkCalls[t]
      x == call.tuple
      rec == <<x[1], x[2], call.items[1]>>
      out == deleteTx(DB, rec, Normalize(m, now), uuidCounter + 1, fail)
      db == WriteTX(DB, out)
      deleted == out.err = "none" /\ out.deleted
  IN  /\ call.pc = "apply" /\ x[3] = "bulk-delete"
      /\ IF call.items = <<>>
         THEN /\ fail = "none"
              /\ bulkCalls' = [bulkCalls EXCEPT ![t] =
                                 [call EXCEPT !.pc = "store", !.resp = [deleted |-> 0]]]
              /\ UNCHANGED <<storeVars>>
         ELSE /\ MayFail(fail)
              /\ kv[KeyOf(rec)] = NoRow => fail \in {"none", "load", "commit"}
              /\ Commit(db)
              /\ uuidCounter' = IF DrewUUID(kv[KeyOf(rec)] # NoRow, TRUE, fail)
                                THEN uuidCounter + 1 ELSE uuidCounter
              /\ last' = Call("delete", KeyOf(rec), fail, out.err, deleted)
              /\ bulkCalls' = [bulkCalls EXCEPT ![t] =
                   IF out.err # "none"
                   THEN BulkReturn(call, 500, "error", FALSE)
                   ELSE [call EXCEPT !.pc = "store", !.wrote = Appended(db),
                           !.resp = [deleted |-> IF deleted THEN 1 ELSE 0]]]
              /\ UNCHANGED <<kvOps, faults>>
      /\ UNCHANGED <<idemCache, nBulkCalls, now, pc, batch, outcome, pubCount, failCount,
                     metrics, restarts, batchSize, tick, lifeVars, replayVars, schemaVars,
                     httpVars, txVars, extVars>>

\* writeIdempotentResponse: nothing without a token; otherwise the payload
\* is upserted under the key, and the error of the upsert is dropped.  The
\* handler then writes the payload with status 200.
writeIdempotentResponse(table, tenantID, collection, op, token, payload, t, fail) ==
  IF token = "" THEN table
  ELSE WriteTX([DB EXCEPT !.kv = table],
               kvUpsertTx([DB EXCEPT !.kv = table],
                          idempotencyKey(tenantID, collection, op, token),
                          "idempotency/" \o tenantID, MarshalPayload(payload), t, fail)).kv

BulkStore(t, fail) ==
  LET call == bulkCalls[t]
      x == call.tuple
      table == writeIdempotentResponse(idemCache, x[1], x[2], x[3], x[4], call.resp, now, fail)
  IN  /\ call.pc = "store"
      /\ x[4] = "" => fail = "none"
      /\ idemCache' = table
      /\ kvOps' = IF table # idemCache THEN kvOps + 1 ELSE kvOps
      /\ bulkCalls' = [bulkCalls EXCEPT ![t] = BulkReturn(call, 200, call.resp, FALSE)]
      /\ UNCHANGED <<kv, audit, outbox, uuidCounter, faults, last, nBulkCalls, now, pc,
                     batch, outcome, pubCount, failCount, metrics, restarts, batchSize,
                     tick, lifeVars, replayVars, schemaVars,
                     httpVars, txVars, extVars>>

BulkRequests ==
  \E t \in Callers, x \in IdemTuples : \E items \in BulkItems(x) : BulkBegin(t, x, items)
BulkUpserts ==
  \E t \in Callers, value \in KVValues, m \in Metas, fail \in {"none", "audit"} :
    BulkUpsertStep(t, value, m, fail)
BulkDeletes ==
  \E t \in Callers, m \in Metas, fail \in {"none", "audit"} : BulkDeleteStep(t, m, fail)
BulkStores == \E t \in Callers, fail \in {"none", "upsert"} : BulkStore(t, fail)

NextIdem == BulkRequests \/ BulkUpserts \/ BulkDeletes \/ BulkStores

SpecIdem == Init /\ [][NextIdem]_vars

(***************************************************************************)
(* The authenticated HTTP endpoints over the state table: the collection   *)
(* endpoints, which take the tenant of the API key, and the /v1/kv         *)
(* endpoints.  Each action is one request, served to its response.         *)
(***************************************************************************)
notHttpStoreVars == <<kvOps, faults, now, pc, batch, outcome, pubCount, failCount, metrics,
                      restarts, batchSize, tick, lifeVars, replayVars, schemaVars, idemVars,
                      txVars, extVars>>
notHttpVars == <<coreVars, replayVars, schemaVars, idemVars, txVars, extVars>>

recordPrefix(tenantID, collection) == tenantID \o "/" \o collection \o "/"

\* The ends of the stored keys: key has the prefix p exactly when key = p \o
\* rest for one of them (key >= p AND key < p + "￿").
KeyTails == {"", "1", "u1", "users/u1"} \cup Keys
HasPrefix(key, p) == \E rest \in KeyTails : key = p \o rest

\* The query parameters of the list and scan requests ("" when absent).
ListPrefixes == {"", "u"}
ScanCategories == {""} \cup {recordCategory(r[1], r[2]) : r \in Records}
ScanPrefixes == {""} \cup {r[1] \o "/" : r \in Records}

\* RecordEventStore.List: the keys of the rows of the tenant's collection
\* whose id has the prefix.
RecordEventStoreList(table, tenantID, collection, prefix) ==
  {k \in DOMAIN table :
     /\ table[k] # NoRow
     /\ table[k].category = recordCategory(tenantID, collection)
     /\ HasPrefix(k, recordPrefix(tenantID, collection) \o prefix)}

\* Repository.Scan: the keys of the rows of the category, when one is given,
\* whose key has the prefix, when one is given.
RepositoryScan(table, category, prefix) ==
  {k \in DOMAIN table :
     /\ table[k] # NoRow
     /\ category # "" => table[k].category = category
     /\ prefix # "" => HasPrefix(k, prefix)}

\* The request a handler has served: the tenant requireAPIKey put in the
\* context, the handler, and the keys of the rows its response shows.
Served(tenantID, op, observed) ==
  [n |-> http.n + 1, tenant |-> tenantID, op |-> op, observed |-> observed]

\* Handler.upsertRecord
HandlerUpsertRecord(tenantID, collection, id, value, m, fail) ==
  LET rec == <<tenantID, collection, id>>
      out == upsertTx(DB, rec, value, Normalize(m, now), uuidCounter + 1, fail)
  IN  /\ http.n < MaxRequests
      /\ MayFail(fail)
      /\ Commit(WriteTX(DB, out))
      /\ uuidCounter' = IF DrewUUID(TRUE, FALSE, fail) THEN uuidCounter + 1 ELSE uuidCounter
      /\ last' = Call("upsert", KeyOf(rec), fail, out.err, FALSE)
      /\ http' = Served(tenantID, "upsertRecord",
                        IF out.err = "none" THEN {KeyOf(rec)} ELSE {})
      /\ UNCHANGED notHttpStoreVars

\* Handler.deleteRecord
HandlerDeleteRecord(tenantID, collection, id, m, fail) ==
  LET rec == <<tenantID, collection, id>>
      out == deleteTx(DB, rec, Normalize(m, now), uuidCounter + 1, fail)
  IN  /\ http.n < MaxRequests
      /\ MayFail(fail)
      /\ kv[KeyOf(rec)] = NoRow => fail \in {"none", "load", "commit"}
      /\ Commit(WriteTX(DB, out))
      /\ uuidCounter' = IF DrewUUID(kv[KeyOf(rec)] # NoRow, TRUE, fail)
                        THEN uuidCounter + 1 ELSE uuidCounter
      /\ last' = Call("delete", KeyOf(rec), fail, out.err,
                      IF out.err = "none" THEN out.deleted ELSE FALSE)
      /\ http' = Served(tenantID, "deleteRecord", {})
      /\ UNCHANGED notHttpStoreVars

\* Handler.getRecord
HandlerGetRecord(tenantID, collection, id) ==
  LET rec == <<tenantID, collection, id>>
  IN  /\ http.n < MaxRequests
      /\ http' = Served(tenantID, "getRecord",
                        IF Get(rec) = NoRow THEN {} ELSE {KeyOf(rec)})
      /\ UNCHANGED notHttpVars

\* Handler.listRecords
HandlerListRecords(tenantID, collection, prefix) ==
  /\ http.n < MaxRequests
  /\ http' = Served(tenantID, "listRecords",
                    RecordEventStoreList(kv, tenantID, collection, prefix))
  /\ UNCHANGED notHttpVars

\* Handler.upsert (PUT /v1/kv/{key})
HandlerUpsert(tenantID, key, category, value, fail) ==
  LET out == kvUpsertTx(DB, key, category, value, now, fail)
  IN  /\ http.n < MaxRequests
      /\ Commit(WriteTX(DB, out))
      /\ kvOps' = IF out.err = "none" THEN kvOps + 1 ELSE kvOps
      /\ last' = Call("kv.upsert", key, fail, out.err, FALSE)
      /\ http' = Served(tenantID, "upsert", IF out.err = "none" THEN {key} ELSE {})
      /\ UNCHANGED <<uuidCounter, faults, now, pc, batch, outcome, pubCount, failCount,
                     metrics, restarts, batchSize, tick, lifeVars, replayVars, schemaVars,
                     idemVars, txVars, extVars>>

\* Handler.delete (DELETE /v1/kv/{key})
HandlerDelete(tenantID, key, fail) ==
  LET out == kvDeleteTx(DB, key, fail)
  IN  /\ http.n < MaxRequests
      /\ Commit(WriteTX(DB, out))
      /\ kvOps' = IF out.err = "none" THEN kvOps + 1 ELSE kvOps
      /\ last' = Call("kv.delete", key, fail, out.err, out.err = "none" /\ kv[key] # NoRow)
      /\ http' = Served(tenantID, "delete", {})
      /\ UNCHANGED <<uuidCounter, faults, now, pc, batch, outcome, pubCount, failCount,
                     metrics, restarts, batchSize, tick, lifeVars, replayVars, schemaVars,
                     idemVars, txVars, extVars>>

\* Handler.get (GET /v1/kv/{key})
HandlerGet(tenantID, key) ==
  /\ http.n < MaxRequests
  /\ http' = Served(tenantID, "get", IF kv[key] = NoRow THEN {} ELSE {key})
  /\ UNCHANGED notHttpVars

\* Handler.scan (GET /v1/kv?category=&prefix=)
HandlerScan(tenantID, category, prefix) ==
  /\ http.n < MaxRequests
  /\ http' = Served(tenantID, "scan", RepositoryScan(kv, category, prefix))
  /\ UNCHANGED notHttpVars

RecordPaths == {<<r[2], r[3]>> : r \in Records}
Collections == {r[2] : r \in Records}

UpsertRecordRequests ==
  \E tenantID \in Tenants, p \in RecordPaths, value \in Values, m \in Metas,
     fail \in {"none", "audit"} :
    HandlerUpsertRecord(tenantID, p[1], p[2], value, m, fail)
DeleteRecordRequests ==
  \E tenantID \in Tenants, p \in RecordPaths, m \in Metas, fail \in {"none", "audit"} :
    HandlerDeleteRecord(tenantID, p[1], p[2], m, fail)
GetRecordRequests ==
  \E tenantID \in Tenants, p \in RecordPaths : HandlerGetRecord(tenantID, p[1], p[2])
ListRecordsRequests ==
  \E tenantID \in Tenants, collection \in Collections, prefix \in ListPrefixes :
    HandlerListRecords(tenantID, collection, prefix)
KVUpsertRequests ==
  \E tenantID \in Tenants, key \in Keys, category \in KVCategories, value \in KVValues,
     fail \in {"none", "upsert"} :
    HandlerUpsert(tenantID, key, category, value, fail)
KVDeleteRequests ==
  \E tenantID \in Tenants, key \in Keys, fail \in {"none", "delete"} :
    HandlerDelete(tenantID, key, fail)
KVGetRequests == \E tenantID \in Tenants, key \in Keys : HandlerGet(tenantID, key)
KVScanRequests ==
  \E tenantID \in Tenants, category \in ScanCategories, prefix \in ScanPrefixes :
    HandlerScan(tenantID, category, prefix)

NextHttp ==
  \/ UpsertRecordRequests
  \/ DeleteRecordRequests
  \/ GetRecordRequests
  \/ ListRecordsRequests
  \/ KVUpsertRequests
  \/ KVDeleteRequests
  \/ KVGetRequests
  \/ KVScanRequests

SpecHttp == Init /\ [][NextHttp]_vars

(***************************************************************************)
(* The writer lane: write transactions of several goroutines on the writer *)
(* pool, statement by statement.  A transaction holds a connection of the  *)
(* pool from Begin to Commit or Rollback and works on the tables directly; *)
(* a rollback restores them as they were at Begin.                         *)
(***************************************************************************)
notTxVars == <<now, faults, last, pc, batch, outcome, pubCount, failCount, metrics,
               restarts, batchSize, tick, lifeVars, replayVars, schemaVars, idemVars,
               httpVars, extVars>>

\* Mutant of WriterConnFree: the writer pool is as wide as the reader pool.
WriterConnFreePooled(holders) == Cardinality(holders) < Cardinality(Callers)

\* database/sql hands out a connection of the writer pool when fewer than
\* MaxOpenConns are in use, and makes the caller wait otherwise.
WriterConnFree(holders) == Cardinality(holders) < WriterMaxOpenConns

TxOps == {"upsert", "delete", "kv.upsert", "kv.delete", "mark"}
RecordOps == {"upsert", "delete"}

\* The arguments of the calls: a record for the record store, a key for the
\* KV repository, an outbox id for MarkDispatched.
TxArgs(op) ==
  CASE op \in RecordOps -> Records
    [] op \in {"kv.upsert", "kv.delete"} -> Keys
    [] OTHER -> 1..MaxRows

InTx(t) == txs[t].pc \in {"run", "append", "commit", "rollback"}

\* A goroutine calls a write operation: db.W.Transaction is entered and asks
\* the pool for a connection.
TxCall(t, op, arg) ==
  /\ txs[t].pc = "idle"
  /\ nTxs < MaxTxs
  /\ nTxs' = nTxs + 1
  /\ txs' = [txs EXCEPT ![t] =
               [pc |-> "begin", op |-> op, arg |-> arg, saved |-> DB, before |-> NoRow,
                version |-> 0, overlapped |-> \E u \in Callers \ {t} : txs[u].pc # "idle",
                result |-> "none"]]
  /\ UNCHANGED <<kv, audit, outbox, uuidCounter, kvOps, writerConns, notTxVars>>

\* BEGIN on the connection the pool handed out.
TxBegin(t) ==
  /\ txs[t].pc = "begin"
  /\ WriterConnFree(writerConns)
  /\ writerConns' = writerConns \cup {t}
  /\ txs' = [u \in Callers |->
               IF u = t THEN [txs[t] EXCEPT !.pc = "run", !.saved = DB]
               ELSE IF txs[u].pc = "begin" THEN [txs[u] EXCEPT !.overlapped = TRUE]
               ELSE txs[u]]
  /\ UNCHANGED <<kv, audit, outbox, uuidCounter, kvOps, nTxs, notTxVars>>

\* UpsertWithEvents / DeleteWithEvents up to nextAggregateVersion: the row
\* before, the state change, the version from the audit rows of the
\* aggregate.  A delete of a missing row returns with nothing written.
TxMutate(t, value, m, fail) ==
  LET tx == txs[t]
      rec == tx.arg
      key == KeyOf(rec)
      meta == Normalize(m, now)
      table == IF tx.op = "upsert"
               THEN UpsertEntry(kv, key, recordCategory(rec[1], rec[2]), value,
                                meta.occurred_at)
               ELSE DeleteEntry(kv, key)
  IN  /\ tx.pc = "run" /\ tx.op \in RecordOps
      /\ IF tx.op = "delete" /\ kv[key] = NoRow
         THEN /\ fail = "none"
              /\ txs' = [txs EXCEPT ![t].pc = "commit"]
              /\ UNCHANGED kv
         ELSE /\ kv' = table
              /\ txs' = [txs EXCEPT ![t] =
                   IF fail = "version"
                   THEN [tx EXCEPT !.pc = "rollback"]
                   ELSE [tx EXCEPT !.pc = "append", !.before = kv[key],
                           !.version = nextAggregateVersion(audit, rec[1], rec[2], rec[3])]]
      /\ UNCHANGED <<audit, outbox, uuidCounter, kvOps, writerConns, nTxs, notTxVars>>

\* insertAuditAndOutbox with the envelope that carries the version.
TxAppend(t, m, fail) ==
  LET tx == txs[t]
      rec == tx.arg
      meta == Normalize(m, now)
      after == kv[KeyOf(rec)]
      envelope ==
        IF tx.op = "upsert"
        THEN Envelope(uuidCounter + 1, eventTypeFor(tx.before), rec, tx.version, meta,
               [record_id |-> rec[3], collection |-> rec[2], data |-> after.value])
        ELSE Envelope(uuidCounter + 1, "record.deleted", rec, tx.version, meta,
               [record_id |-> rec[3], collection |-> rec[2]])
      ins == insertAuditAndOutbox(DB, rec, meta,
               IF tx.before = NoRow THEN "" ELSE tx.before.value,
               IF tx.op = "upsert" THEN after.value ELSE "", envelope, fail)
  IN  /\ tx.pc = "append"
      /\ MayFail(fail)
      /\ Commit(ins.db)
      /\ uuidCounter' = uuidCounter + 1
      /\ txs' = [txs EXCEPT ![t].pc = IF ins.err = "none" THEN "commit" ELSE "rollback"]
      /\ UNCHANGED <<kvOps, writerConns, nTxs, notTxVars>>

\* The one statement of Repository.Upsert, Repository.Delete or
\* OutboxRepository.MarkDispatched.
TxApply(t, category, value) ==
  LET tx == txs[t]
      db == CASE tx.op = "kv.upsert" -> kvUpsertTx(DB, tx.arg, category, value, now, "none").db
              [] tx.op = "kv.delete" -> kvDeleteTx(DB, tx.arg, "none").db
              [] OTHER -> [DB EXCEPT !.outbox = MarkDispatched(@, tx.arg, now)]
  IN  /\ tx.pc = "run" /\ tx.op \notin RecordOps
      /\ Commit(db)
      /\ txs' = [txs EXCEPT ![t].pc = "commit"]
      /\ UNCHANGED <<uuidCounter, kvOps, writerConns, nTxs, notTxVars>>

\* COMMIT: the connection goes back to the pool.
TxCommit(t) ==
  /\ txs[t].pc = "commit"
  /\ writerConns' = writerConns \ {t}
  /\ kvOps' = IF txs[t].op \in {"kv.upsert", "kv.delete"} THEN kvOps + 1 ELSE kvOps
  /\ txs' = [txs EXCEPT ![t].pc = "idle", ![t].result = "committed"]
  /\ UNCHANGED <<kv, audit, outbox, uuidCounter, nTxs, notTxVars>>

\* ROLLBACK after the callback returned an error.
TxRollback(t) ==
  /\ txs[t].pc = "rollback"
  /\ writerConns' = writerConns \ {t}
  /\ Commit(txs[t].saved)
  /\ txs' = [txs EXCEPT ![t].pc = "idle", ![t].result = "rolled back"]
  /\ UNCHANGED <<uuidCounter, kvOps, nTxs, notTxVars>>

TxCalls == \E t \in Callers, op \in TxOps : \E arg \in TxArgs(op) : TxCall(t, op, arg)
TxBegins == \E t \in Callers : TxBegin(t)
TxMutates ==
  \E t \in Callers, value \in KVValues, m \in Metas, fail \in {"none", "version"} :
    TxMutate(t, value, m, fail)
TxAppends == \E t \in Callers, m \in Metas, fail \in {"none", "audit", "outbox"} :
  TxAppend(t, m, fail)
TxApplies == \E t \in Callers, category \in KVCategories, value \in KVValues :
  TxApply(t, category, value)
TxCommits == \E t \in Callers : TxCommit(t)
TxRollbacks == \E t \in Callers : TxRollback(t)

NextTx ==
  \/ TxCalls
  \/ TxBegins
  \/ TxMutates
  \/ TxAppends
  \/ TxApplies
  \/ TxCommits
  \/ TxRollbacks

SpecTx == Init /\ [][NextTx]_vars

(***************************************************************************)
(* RecordService.BulkUpsert and BulkDelete over several items, one step    *)
(* per item.                                                               *)
(***************************************************************************)
MaxItems == 3
MaxBulkRuns == 2

notBulkRunVars == <<kvOps, now, faults, pc, batch, outcome, pubCount, failCount, metrics,
                    restarts, batchSize, tick, lifeVars, replayVars, schemaVars, idemVars,
                    httpVars, txVars, norm, marks, ident, rd>>

\* The item lists of a request: up to MaxItems ids, repeats allowed.
BulkItemLists == UNION {[1..n -> BulkIds] : n \in 0..MaxItems}

\* BulkUpsert / BulkDelete is called: nothing applied yet.
ServiceBulkCall(op, items) ==
  /\ bulkRun.pc \in {"idle", "done"}
  /\ bulkRun.n < MaxBulkRuns
  /\ bulkRun' = [pc |-> "loop", op |-> op, items |-> items, k |-> 1, base |-> Len(audit),
                 err |-> "none", result |-> <<>>, deleted |-> 0, n |-> bulkRun.n + 1]
  /\ UNCHANGED <<storeVars, notBulkRunVars>>

\* Mutant of ServiceBulkUpsertItem: a failed item is passed over and the loop
\* goes on with the next one.
ServiceBulkUpsertItemGoesOn(m, fail) ==
  LET id == bulkRun.items[bulkRun.k]
      rec == <<"t1", "users", id>>
      out == upsertTx(DB, rec, "A", Normalize(m, now), uuidCounter + 1, fail)
  IN  /\ bulkRun.pc = "loop" /\ bulkRun.op = "bulk-upsert"
      /\ bulkRun.k <= Len(bulkRun.items)
      /\ IF ~RecordValidate(rec)
         THEN /\ fail = "none"
              /\ bulkRun' = [bulkRun EXCEPT !.k = @ + 1]
              /\ UNCHANGED <<kv, audit, outbox, uuidCounter, last>>
         ELSE /\ MayFail(fail)
              /\ Commit(WriteTX(DB, out))
              /\ uuidCounter' = IF DrewUUID(TRUE, FALSE, fail)
                                THEN uuidCounter + 1 ELSE uuidCounter
              /\ last' = Call("upsert", KeyOf(rec), fail, out.err, FALSE)
              /\ bulkRun' = IF out.err # "none"
                            THEN [bulkRun EXCEPT !.k = @ + 1]
                            ELSE [bulkRun EXCEPT !.k = @ + 1, !.result = Append(@, id)]
      /\ UNCHANGED notBulkRunVars

\* One iteration of BulkUpsert's loop: s.Upsert of the item (Record.Validate,
\* then UpsertWithEvents in its own write transaction); an error returns
\* (nil, err) at once.
ServiceBulkUpsertItem(m, fail) ==
  LET id == bulkRun.items[bulkRun.k]
      rec == <<"t1", "users", id>>
      out == upsertTx(DB, rec, "A", Normalize(m, now), uuidCounter + 1, fail)
  IN  /\ bulkRun.pc = "loop" /\ bulkRun.op = "bulk-upsert"
      /\ bulkRun.k <= Len(bulkRun.items)
      /\ IF ~RecordValidate(rec)
         THEN /\ fail = "none"
              /\ bulkRun' = [bulkRun EXCEPT !.pc = "done", !.err = "bulk upsert: invalid key",
                                            !.result = <<>>]
              /\ UNCHANGED <<kv, audit, outbox, uuidCounter, last>>
         ELSE /\ MayFail(fail)
              /\ Commit(WriteTX(DB, out))
              /\ uuidCounter' = IF DrewUUID(TRUE, FALSE, fail)
                                THEN uuidCounter + 1 ELSE uuidCounter
              /\ last' = Call("upsert", KeyOf(rec), fail, out.err, FALSE)
              /\ bulkRun' = IF out.err # "none"
                            THEN [bulkRun EXCEPT !.pc = "done", !.result = <<>>,
                                                 !.err = "bulk upsert: " \o out.err]
                            ELSE [bulkRun EXCEPT !.k = @ + 1, !.result = Append(@, id)]
      /\ UNCHANGED notBulkRunVars

\* One iteration of BulkDelete's loop: s.Delete of the id (the validations,
\* then DeleteWithEvents in its own write transaction); an error returns
\* (deletedCount, err) at once.
ServiceBulkDeleteItem(m, fail) ==
  LET id == bulkRun.items[bulkRun.k]
      rec == <<"t1", "users", id>>
      out == deleteTx(DB, rec, Normalize(m, now), uuidCounter + 1, fail)
  IN  /\ bulkRun.pc = "loop" /\ bulkRun.op = "bulk-delete"
      /\ bulkRun.k <= Len(bulkRun.items)
      /\ IF ~RecordValidate(rec)
         THEN /\ fail = "none"
              /\ bulkRun' = [bulkRun EXCEPT !.pc = "done", !.err = "bulk delete: invalid key"]
              /\ UNCHANGED <<kv, audit, outbox, uuidCounter, last>>
         ELSE /\ MayFail(fail)
              /\ kv[KeyOf(rec)] = NoRow => fail \in {"none", "load", "commit"}
              /\ Commit(WriteTX(DB, out))
              /\ uuidCounter' = IF DrewUUID(kv[KeyOf(rec)] # NoRow, TRUE, fail)
                                THEN uuidCounter + 1 ELSE uuidCounter
              /\ last' = Call("delete", KeyOf(rec), fail, out.err,
                              IF out.err = "none" THEN out.deleted ELSE FALSE)
              /\ bulkRun' = IF out.err # "none"
                            THEN [bulkRun EXCEPT !.pc = "done",
                                                 !.err = "bulk delete: " \o out.err]
                            ELSE [bulkRun EXCEPT !.k = @ + 1,
                                    !.deleted = @ + (IF out.deleted THEN 1 ELSE 0)]
      /\ UNCHANGED notBulkRunVars

\* The loop is over: (result, nil) or (deletedCount, nil).
ServiceBulkReturn ==
  /\ bulkRun.pc = "loop"
  /\ bulkRun.k > Len(bulkRun.items)
  /\ bulkRun' = [bulkRun EXCEPT !.pc = "done"]
  /\ UNCHANGED <<storeVars, notBulkRunVars>>

ServiceBulkCalls == \E op \in IdemOps, items \in BulkItemLists : ServiceBulkCall(op, items)
ServiceBulkUpsertItems == \E m \in Metas, fail \in {"none", "load", "outbox"} :
  ServiceBulkUpsertItem(m, fail)
ServiceBulkDeleteItems == \E m \in Metas, fail \in {"none", "load", "outbox"} :
  ServiceBulkDeleteItem(m, fail)

InitBulk == InitKeys(BulkKeys, 0, <<>>, <<>>, NoReplay)

NextBulk ==
  \/ ServiceBulkCalls
  \/ ServiceBulkUpsertItems
  \/ ServiceBulkDeleteItems
  \/ ServiceBulkReturn

SpecBulk == InitBulk /\ [][NextBulk]_vars

(***************************************************************************)
(* ReplayTenantEvents while records are written: audit rows are appended   *)
(* once the replay has listed its first batch.                             *)
(***************************************************************************)
MaxLate == 2

\* The metadata of the writes made during the replay.
LateMeta == [actor |-> "", source |-> "", request_id |-> "req-late", occurred_at |-> 0]

\* The audit rows appended since the replay listed its first batch.
LateIds == {i \in 1..Len(audit) : audit[i].request_id = LateMeta.request_id}

\* The replay is past its first audit.List and has not returned.
ReplayUnderWay ==
  replay.status = "running" /\ (replay.afterID > 0 \/ replay.pc = "apply")

\* RecordService.Upsert by another goroutine while the replay is under way.
LateUpsert(rec, value) ==
  /\ ReplayUnderWay
  /\ Cardinality(LateIds) < MaxLate
  /\ UpsertWithEvents(rec, value, LateMeta, "none")

LateUpserts == \E rec \in Records : LateUpsert(rec, "A")

NextAppend ==
  \/ ReplayLists
  \/ ReplayApplies
  \/ LateUpserts

\* The goroutine that runs the replay is scheduled as long as it can step.
FairAppend ==
  /\ InitReplay
  /\ [][NextAppend]_vars
  /\ WF_vars(ReplayLists)
  /\ WF_vars(ReplayApplies)

(***************************************************************************)
(* Reads on the reader pool while write transactions run on the writer     *)
(* connection.                                                             *)
(***************************************************************************)
\* Mutant of ReadTX: the read runs on the writer's connection.
ReadTXOnWriterConn == DB

\* DB.ReadTX: a read-only transaction on a connection of the reader pool
\* (db.R, journal_mode WAL).  It reads the last committed state: the tables
\* as they were when the open write transaction began, if there is one.
ReadTX ==
  IF \E t \in Callers : InTx(t)
  THEN txs[CHOOSE t \in Callers : InTx(t)].saved
  ELSE DB

\* One query inside ReadTX, its result kept.
Read(op, arg, result) ==
  /\ rd' = [op |-> op, arg |-> arg, parallel |-> \E t \in Callers : InTx(t),
            snap |-> ReadTX, result |-> result]
  /\ UNCHANGED <<coreVars, replayVars, schemaVars, idemVars, httpVars, txVars,
                 norm, marks, ident, bulkRun>>

\* RecordEventStore.Get
ReadGet(rec) == Read("get", rec, ReadTX.kv[KeyOf(rec)])

\* RecordEventStore.List
ReadList(rec) ==
  Read("list", rec,
       LET keys == RecordEventStoreList(ReadTX.kv, rec[1], rec[2], "")
       IN  [k \in keys |-> ReadTX.kv[k]])

\* AuditService.List (ListAuditEvents) of a tenant, default limit.
ReadAudit(tenantID) ==
  Read("audit", tenantID,
       AuditServiceList(ReadTX.audit, [TenantID |-> tenantID, AfterID |-> 0, Limit |-> 0]))

\* OutboxRepository.FetchPending
ReadFetchPending == Read("fetch", <<>>, FetchPending(ReadTX.outbox, now, DefaultBatchSize))

ReadGets == \E rec \in Records : ReadGet(rec)
ReadLists == \E rec \in Records : ReadList(rec)
ReadAudits == \E tenantID \in Tenants : ReadAudit(tenantID)
WriteCalls == \E op \in RecordOps \cup {"mark"} : \E arg \in TxArgs(op) : TxCall(1, op, arg)

\* Record writes and MarkDispatched calls of one goroutine on the writer
\* connection, with reads on the reader pool at any point in between.
NextRead ==
  \/ WriteCalls
  \/ TxBegins
  \/ TxMutates
  \/ TxAppends
  \/ TxApplies
  \/ TxCommits
  \/ TxRollbacks
  \/ ReadGets
  \/ ReadLists
  \/ ReadAudits
  \/ ReadFetchPending

SpecRead == Init /\ [][NextRead]_vars

(***************************************************************************)
(* dispatchBatch with the mark call on the repository and the increments   *)
(* of the atomic counters as separate steps, as the goroutine that serves  *)
(* /metrics sees them.                                                     *)
(***************************************************************************)
\* dispatchBatch, the mark call of the head event: MarkDispatched after a
\* Publish that returned nil, else markFailure's MarkDead or MarkFailed.  An
\* error of the call ends the batch with no counter touched.
MarkRepo(w, fail) ==
  /\ pc[w] = "mark"
  /\ LET event == Head(batch[w])
         mf == markFailure(outbox, event, outcome[w], now)
     IN  IF fail
         THEN /\ faults < MaxFaults
              /\ faults' = faults + 1
              /\ batch' = [batch EXCEPT ![w] = <<>>]
              /\ pc' = [pc EXCEPT ![w] = "idle"]
              /\ tick' = [tick EXCEPT ![w] = NoTick]
              /\ outcome' = [outcome EXCEPT ![w] = "none"]
              /\ UNCHANGED <<outbox, marks, failCount>>
         ELSE /\ UNCHANGED <<faults, batch, tick, outcome>>
              /\ IF outcome[w] = "ok"
                 THEN /\ outbox' = MarkDispatched(outbox, event.id, now)
                      /\ marks' = [marks EXCEPT ![w].dispatched = @ + 1]
                      /\ pc' = [pc EXCEPT ![w] = "count"]
                      /\ UNCHANGED failCount
                 ELSE /\ outbox' = mf.rows
                      /\ marks' = IF mf.dead
                                  THEN [marks EXCEPT ![w].dead = @ + 1]
                                  ELSE [marks EXCEPT ![w].failed = @ + 1]
                      /\ pc' = [pc EXCEPT ![w] = IF mf.dead THEN "countDead" ELSE "count"]
                      /\ failCount' = Bump(failCount, event.id)
  /\ UNCHANGED <<kv, audit, uuidCounter, kvOps, now, last, pubCount, metrics, restarts,
                 batchSize, lifeVars, replayVars, schemaVars, idemVars, httpVars, txVars,
                 norm, ident, rd, bulkRun>>

\* markFailure after MarkDead returned nil: d.dispatchDeadTotal.Add(1).
CountDead(w) ==
  /\ pc[w] = "countDead"
  /\ metrics' = [metrics EXCEPT ![w].dead = @ + 1]
  /\ pc' = [pc EXCEPT ![w] = "count"]
  /\ UNCHANGED <<storeVars, now, batch, outcome, pubCount, failCount, restarts, batchSize,
                 tick, lifeVars, auxVars>>

\* dispatchBatch after the mark call returned nil: dispatchSuccessTotal.Add(1)
\* or dispatchFailureTotal.Add(1), then the next event of the batch.
CountEvent(w) ==
  /\ pc[w] = "count"
  /\ LET rest == Tail(batch[w])
     IN  /\ metrics' = IF outcome[w] = "ok"
                       THEN [metrics EXCEPT ![w].success = @ + 1]
                       ELSE [metrics EXCEPT ![w].failure = @ + 1]
         /\ batch' = [batch EXCEPT ![w] = rest]
         /\ pc' = [pc EXCEPT ![w] = IF rest = <<>> THEN "idle" ELSE "publish"]
         /\ tick' = [tick EXCEPT ![w] = IF rest = <<>> THEN NoTick ELSE @]
  /\ outcome' = [outcome EXCEPT ![w] = "none"]
  /\ UNCHANGED <<storeVars, now, pubCount, failCount, restarts, batchSize, lifeVars, auxVars>>

MarkRepos(W, F) == \E w \in W, fail \in F : MarkRepo(w, fail)
CountDeads(W) == \E w \in W : CountDead(w)
CountEvents(W) == \E w \in W : CountEvent(w)

\* One dispatcher over a seeded outbox, its counters read at any step.
NextMetrics ==
  \/ FetchStep({1}, BOOLEAN)
  \/ Publish({1})
  \/ MarkRepos({1}, BOOLEAN)
  \/ CountDeads({1})
  \/ CountEvents({1})
  \/ AdvanceTime

SpecMetrics == InitSeeded /\ [][NextMetrics]_vars

(***************************************************************************)
(* RecordService called with records whose tenant, collection and id are   *)
(* any strings its validation accepts.                                     *)
(***************************************************************************)
notIdentVars == <<kvOps, now, faults, pc, batch, outcome, pubCount, failCount, metrics,
                  restarts, batchSize, tick, lifeVars, replayVars, schemaVars, idemVars,
                  httpVars, txVars, norm, marks, rd, bulkRun>>

\* RecordService.Upsert: Record.Validate, then store.UpsertWithEvents.
ServiceUpsert(rec, value, m) ==
  LET meta == Normalize(m, now)
      out == upsertTx(DB, rec, value, meta, uuidCounter + 1, "none")
  IN  IF ~RecordValidate(rec)
      THEN /\ ident' = [ident EXCEPT !.op = "upsert", !.rec = rec, !.err = TRUE, !.got = NoRow]
           /\ UNCHANGED <<kv, audit, outbox, uuidCounter, last, notIdentVars>>
      ELSE /\ Commit(WriteTX(DB, out))
           /\ uuidCounter' = uuidCounter + 1
           /\ last' = Call("upsert", KeyOf(rec), "none", out.err, FALSE)
           /\ ident' = [ident EXCEPT !.op = "upsert", !.rec = rec, !.err = FALSE,
                                     !.got = NoRow, !.written[rec] = value]
           /\ UNCHANGED notIdentVars

\* RecordService.Delete: the three validations, then store.DeleteWithEvents.
ServiceDelete(rec, m) ==
  LET meta == Normalize(m, now)
      out == deleteTx(DB, rec, meta, uuidCounter + 1, "none")
  IN  IF ~RecordValidate(rec)
      THEN /\ ident' = [ident EXCEPT !.op = "delete", !.rec = rec, !.err = TRUE, !.got = NoRow]
           /\ UNCHANGED <<kv, audit, outbox, uuidCounter, last, notIdentVars>>
      ELSE /\ Commit(WriteTX(DB, out))
           /\ uuidCounter' = IF out.deleted THEN uuidCounter + 1 ELSE uuidCounter
           /\ last' = Call("delete", KeyOf(rec), "none", out.err, out.deleted)
           /\ ident' = [ident EXCEPT !.op = "delete", !.rec = rec, !.err = FALSE,
                                     !.got = NoRow, !.written[rec] = "none"]
           /\ UNCHANGED notIdentVars

\* RecordService.Get: the three validations, then store.Get by the key.
ServiceGet(rec) ==
  /\ ident' = IF ~RecordValidate(rec)
              THEN [ident EXCEPT !.op = "get", !.rec = rec, !.err = TRUE, !.got = NoRow]
              ELSE [ident EXCEPT !.op = "get", !.rec = rec, !.err = FALSE, !.got = Get(rec)]
  /\ UNCHANGED <<kv, audit, outbox, uuidCounter, last, notIdentVars>>

ServiceUpserts == \E rec \in IdentityRecords, value \in Values, m \in Metas :
  Writes < MaxWrites /\ ServiceUpsert(rec, value, m)
ServiceDeletes == \E rec \in IdentityRecords, m \in Metas :
  Writes < MaxWrites /\ ServiceDelete(rec, m)
ServiceGets == \E rec \in IdentityRecords : ServiceGet(rec)

InitIdentity == InitKeys(IdentityKeys, 0, <<>>, <<>>, NoReplay)

NextIdentity ==
  \/ ServiceUpserts
  \/ ServiceDeletes
  \/ ServiceGets

SpecIdentity == InitIdentity /\ [][NextIdentity]_vars

(***************************************************************************)
(* EventCodec.Normalize, one loop iteration per step, for the codecs       *)
(* NewEventCodec builds from any upcasters.                                *)
(***************************************************************************)
MaxIters == 3

\* The schema versions an envelope or an upcaster can name.
Versions == (CurrentEventSchemaVersion - 2)..(CurrentEventSchemaVersion + 1)

\* NewEventCodec(upcasters...): the map from FromVersion() to the upcaster,
\* whose ToVersion() is any version and whose Upcast fails or not.
NewEventCodec ==
  UNION { [froms -> [to : Versions, fails : BOOLEAN]]
          : froms \in SUBSET {v \in Versions : v < CurrentEventSchemaVersion} }

\* The envelopes handed to Normalize: one event at each schema version.
CodecEnvelopes ==
  LET meta == [actor |-> "api", source |-> "api", request_id |-> "req-1", occurred_at |-> 0]
      env == Envelope(1, "record.updated", <<"t1", "users", "u1">>, 1, meta, "A")
  IN  {[env EXCEPT !.schema_version = v] : v \in Versions}

\* Normalize's first two statements: v and payload are taken from the
\* envelope.
NormalizeCall(codec, envelope) ==
  /\ norm.pc = "idle"
  /\ norm' = [pc |-> "loop", codec |-> codec, envelope |-> envelope,
              v |-> envelope.schema_version, payload |-> envelope.payload,
              applied |-> <<>>, err |-> "none", at |-> 0, out |-> EmptyEnvelope]
  /\ UNCHANGED <<coreVars, replayVars, schemaVars, idemVars, httpVars, txVars, marks, ident, rd, bulkRun>>

NormalizeCalls == \E codec \in NewEventCodec, envelope \in CodecEnvelopes :
  NormalizeCall(codec, envelope)

\* Mutant of NormalizeIter: a version without an upcaster is stepped over.
NormalizeIterSkipsMissing ==
  /\ norm.pc = "loop"
  /\ norm.v < CurrentEventSchemaVersion
  /\ Len(norm.applied) < MaxIters
  /\ IF norm.v \notin DOMAIN norm.codec
     THEN norm' = [norm EXCEPT !.v = @ + 1]
     ELSE IF norm.codec[norm.v].fails
          THEN norm' = [norm EXCEPT !.pc = "done", !.err = "upcast", !.at = norm.v]
          ELSE norm' = [norm EXCEPT !.payload = Upcast(@),
                                    !.v = norm.codec[norm.v].to,
                                    !.applied = Append(@, norm.v)]
  /\ UNCHANGED <<coreVars, replayVars, schemaVars, idemVars, httpVars, txVars, marks, ident, rd, bulkRun>>

\* One iteration of Normalize's loop, entered with v < current: the
\* upcaster of v is looked up and applied, and v becomes its ToVersion().
NormalizeIter ==
  /\ norm.pc = "loop"
  /\ norm.v < CurrentEventSchemaVersion
  /\ Len(norm.applied) < MaxIters
  /\ IF norm.v \notin DOMAIN norm.codec
     THEN norm' = [norm EXCEPT !.pc = "done", !.err = "missing upcaster", !.at = norm.v]
     ELSE IF norm.codec[norm.v].fails
          THEN norm' = [norm EXCEPT !.pc = "done", !.err = "upcast", !.at = norm.v]
          ELSE norm' = [norm EXCEPT !.payload = Upcast(@),
                                    !.v = norm.codec[norm.v].to,
                                    !.applied = Append(@, norm.v)]
  /\ UNCHANGED <<coreVars, replayVars, schemaVars, idemVars, httpVars, txVars, marks, ident, rd, bulkRun>>

\* The loop test fails: the envelope is returned with v and the payload
\* written back.
NormalizeReturn ==
  /\ norm.pc = "loop"
  /\ ~(norm.v < CurrentEventSchemaVersion)
  /\ norm' = [norm EXCEPT !.pc = "done",
                          !.out = [norm.envelope EXCEPT !.schema_version = norm.v,
                                                        !.payload = norm.payload]]
  /\ UNCHANGED <<coreVars, replayVars, schemaVars, idemVars, httpVars, txVars, marks, ident, rd, bulkRun>>

NextCodec ==
  \/ NormalizeCalls
  \/ NormalizeIter
  \/ NormalizeReturn

SpecCodec == Init /\ [][NextCodec]_vars

(***************************************************************************)
(* Claims about the event-atomic record store, stated for Spec.            *)
(***************************************************************************)
Tables == <<kv, audit, outbox>>

LastEvent == audit[Len(audit)]
LastOutbox == outbox[Len(outbox)]

\* The step is a call of one of these operations (the clock does not move
\* within a call; every other step of Spec is a Tick).
Called(ops) == now' = now /\ last'.op \in ops

\* The step committed a record write: an upsert without error, or a delete
\* that returned true.
WroteRecord ==
  /\ Called({"upsert", "delete"})
  /\ ~last'.err
  /\ last'.op = "upsert" \/ (last'.op = "delete" /\ last'.deleted)

PairedByEventID ==
  /\ Len(audit) = Len(outbox)
  /\ \A i \in 1..Len(audit) :
       Cardinality({j \in 1..Len(outbox) : outbox[j].event_id = audit[i].event_id}) = 1
  /\ \A j \in 1..Len(outbox) :
       Cardinality({i \in 1..Len(audit) : audit[i].event_id = outbox[j].event_id}) = 1

OneRowEach ==
  IF WroteRecord
  THEN /\ Len(audit') = Len(audit) + 1
       /\ Len(outbox') = Len(outbox) + 1
       /\ SubSeq(audit', 1, Len(audit)) = audit
       /\ SubSeq(outbox', 1, Len(outbox)) = outbox
       /\ audit'[Len(audit')].event_id = outbox'[Len(outbox')].event_id
  ELSE /\ audit' = audit
       /\ outbox' = outbox

\* C1: after any sequence of UpsertWithEvents and DeleteWithEvents calls the
\* audit rows and the outbox rows correspond one-to-one by event_id; every
\* successful upsert and every delete that returns true adds exactly one
\* audit row and one outbox row with the same event_id, and no other step
\* adds a row.
C1_AuditOutboxOneToOne == []PairedByEventID /\ [][OneRowEach]_vars

C1_Witness ==
  /\ last.op = "delete" /\ last.deleted /\ ~last.err
  /\ Len(audit) = 3 /\ Len(outbox) = 3
  /\ LastEvent.event_id = LastOutbox.event_id

\* C2: when a step of the write transaction of UpsertWithEvents or
\* DeleteWithEvents fails, the call returns an error, DeleteWithEvents
\* reports deleted = false, and the state, audit and outbox tables are
\* what they were before the call.
C2_FailedWriteRollsBack ==
  [][(Called({"upsert", "delete"}) /\ last'.fail # "none")
       => (last'.err /\ ~last'.deleted /\ UNCHANGED Tables)]_vars

C2_Witness ==
  /\ last.op = "delete" /\ last.fail = "outbox" /\ last.err /\ ~last.deleted
  /\ kv[last.key] # NoRow
  /\ Len(audit) = 1

AggregateRows(rec) ==
  LET Mine(a) == /\ a.tenant_id = rec[1]
                 /\ a.aggregate_type = rec[2]
                 /\ a.aggregate_id = rec[3]
  IN  SelectSeq(audit, Mine)

\* C3: for every aggregate, the aggregate_version values of its audit rows
\* in ascending audit id order are 1, 2, 3, ... without gap or repeat, also
\* across a delete followed by a new create.
C3_VersionsGapFree ==
  \A rec \in Records :
    \A k \in 1..Len(AggregateRows(rec)) : AggregateRows(rec)[k].aggregate_version = k

C3_Witness ==
  \E rec \in Records :
    /\ Len(AggregateRows(rec)) = 3
    /\ AggregateRows(rec)[2].action = "record.deleted"
    /\ AggregateRows(rec)[3].action = "record.created"
    /\ AggregateRows(rec)[3].aggregate_version = 3

\* C4: the audit stream is append-only: a committed audit row stays, with
\* the same field values, in every later state; an attempted UPDATE or
\* DELETE of an audit row returns an error and its transaction leaves all
\* tables unchanged.
C4_AuditAppendOnly ==
  [][/\ Len(audit') >= Len(audit)
     /\ SubSeq(audit', 1, Len(audit)) = audit
     /\ Called({"audit.update", "audit.delete"})
          => (last'.err /\ UNCHANGED Tables)]_vars

C4_Witness ==
  /\ last.op = "audit.update" /\ last.err
  /\ kv[last.key] # NoRow
  /\ Len(audit) >= 2

\* C5: every committed change to the stored state of a record, made through
\* any mutating operation the service exposes, is committed together with
\* exactly one audit event and one outbox event.
C5_EveryStateChangeHasEvents ==
  [][kv' # kv => (/\ Len(audit') = Len(audit) + 1
                  /\ Len(outbox') = Len(outbox) + 1)]_vars

\* C6: DeleteWithEvents on a record that does not exist returns false
\* without error and leaves the state, audit and outbox tables unchanged;
\* no event id is drawn and no aggregate version is consumed.
C6_DeleteMissingIsNoop ==
  [][(Called({"delete"}) /\ last'.fail = "none" /\ kv[last'.key] = NoRow)
       => (/\ ~last'.err
           /\ ~last'.deleted
           /\ UNCHANGED Tables
           /\ UNCHANGED uuidCounter)]_vars

C6_Witness ==
  /\ last.op = "delete" /\ last.fail = "none" /\ ~last.err /\ ~last.deleted
  /\ kv[last.key] = NoRow
  /\ Len(audit) = 2
  /\ LastEvent.action = "record.deleted"

RecordOf(key) == CHOOSE rec \in Records : KeyOf(rec) = key

EventTypeByBeforeState ==
  /\ (Called({"upsert"}) /\ ~last'.err) =>
       /\ audit'[Len(audit')].action =
            (IF kv[last'.key] = NoRow THEN "record.created" ELSE "record.updated")
  /\ (Called({"delete"}) /\ ~last'.err /\ last'.deleted) =>
       /\ audit'[Len(audit')].action = "record.deleted"
  /\ WroteRecord =>
       /\ outbox'[Len(outbox')].topic =
            "events." \o RecordOf(last'.key)[1] \o "." \o audit'[Len(audit')].action
       /\ UnmarshalEnvelope(outbox'[Len(outbox')].payload_json).event_type =
            audit'[Len(audit')].action
       /\ UnmarshalEnvelope(outbox'[Len(outbox')].payload_json).aggregate_version =
            audit'[Len(audit')].aggregate_version

\* Scenario S1: upsert, upsert, delete of one record on an empty store.
CreateUpdateDelete(rec) ==
  /\ kvOps = 0
  /\ Len(audit) = 3
  /\ Len(AggregateRows(rec)) = 3
  /\ audit[1].after_json # "" /\ audit[2].after_json # "" /\ audit[3].after_json = ""

ScenarioS1 ==
  \A rec \in Records :
    CreateUpdateDelete(rec) =>
      /\ [i \in 1..3 |-> audit[i].action] =
           <<"record.created", "record.updated", "record.deleted">>
      /\ [i \in 1..3 |-> audit[i].aggregate_version] = <<1, 2, 3>>
      /\ [i \in 1..3 |-> outbox[i].topic] =
           << "events." \o rec[1] \o ".record.created",
              "events." \o rec[1] \o ".record.updated",
              "events." \o rec[1] \o ".record.deleted" >>
      /\ Get(rec) = NoRow

\* C7: the event type of a write is decided by the state at the start of its
\* transaction: an upsert emits record.created exactly when no row for the
\* record existed and record.updated otherwise, a delete of an existing
\* record emits record.deleted, the topic is events.<tenant>.<type>; create,
\* update, delete of one record give created, updated, deleted with versions
\* 1, 2, 3, after which Get finds nothing.
C7_EventTypeFromBeforeState == []ScenarioS1 /\ [][EventTypeByBeforeState]_vars

C7_Witness ==
  /\ \E rec \in Records : CreateUpdateDelete(rec)
  /\ last.op = "delete" /\ last.deleted

(***************************************************************************)
(* Claims about the outbox dispatcher.                                     *)
(***************************************************************************)
OutboxIds == 1..Len(outbox)

RetryBudget ==
  \A i \in OutboxIds :
    /\ CountOf(failCount, i) = outbox[i].attempts
    /\ CountOf(failCount, i) >= maxRetry =>
         (outbox[i].status = "dead" /\ outbox[i].attempts = maxRetry)
    /\ outbox[i].status = "dead" => outbox[i].attempts = maxRetry
    /\ outbox[i].status = "pending" => outbox[i].attempts < maxRetry

DeadStaysUntouched ==
  \A i \in OutboxIds :
    outbox[i].status = "dead" =>
      /\ outbox'[i] = outbox[i]
      /\ CountOf(pubCount', i) = CountOf(pubCount, i)

\* C8: once max_retry (= 5) failed dispatch attempts of an outbox row have
\* been recorded the row is dead with attempts = 5, and from then on no step
\* of the dispatcher, or of a dispatcher constructed later, passes it to
\* Publish or changes any of its fields.  Stated for SpecDispatch.
C8_DeadAfterMaxRetry == []RetryBudget /\ [][DeadStaysUntouched]_vars

C8_Witness ==
  \E i \in OutboxIds :
    /\ outbox[i].status = "dead"
    /\ outbox[i].attempts = 5
    /\ CountOf(failCount, i) = 5
    /\ restarts = 1
    /\ metrics[1].dead = 0
    /\ metrics[1].success = 1

\* C9: the status of an outbox row changes only from pending to dispatched
\* or from pending to dead, whichever dispatcher workers operate on the
\* outbox and however their steps interleave.  Stated for two workers
\* (SpecConc).
C9_StatusOnlyLeavesPending ==
  [][\A i \in OutboxIds :
       outbox'[i].status # outbox[i].status =>
         (outbox[i].status = "pending" /\ outbox'[i].status \in {"dispatched", "dead"})]_vars

\* C10: every outbox row committed by a successful write is eventually passed
\* to Publish at least once, when the worker keeps ticking and time advances
\* (FairDispatch).
C10_EventuallyPublished ==
  \A i \in 1..MaxRows : (Len(outbox) >= i) ~> (CountOf(pubCount, i) >= 1)

C10_Witness ==
  /\ Len(outbox) = MaxRows
  /\ \A i \in OutboxIds : CountOf(pubCount, i) >= 1
  /\ batchSize[1] = 1
  /\ outbox[1].status = "pending" /\ outbox[1].attempts >= 1
  /\ outbox[Len(outbox)].status = "dispatched"

(***************************************************************************)
(* Claims about one dispatchBatch call, stated for SpecBatch.              *)
(***************************************************************************)
Occurrences(seq, x) == Cardinality({i \in 1..Len(seq) : seq[i] = x})

BatchIds(w) == {batch[w][i].id : i \in 1..Len(batch[w])}

\* The step ends a dispatchBatch call of worker w that returns nil.
TickEndsWell(w) ==
  /\ pc[w] = "mark" /\ pc'[w] = "idle"
  /\ faults' = faults
  /\ restarts' = restarts

\* The step is the FetchPending of a dispatchBatch call of worker w that
\* returned rows.
Fetches(w) == pc[w] = "idle" /\ pc'[w] = "publish"

\* C11 as stated: in every dispatchBatch call that returns nil, each row that
\* was pending and due when the call started got exactly one dispatch attempt
\* (one Publish call when its payload decodes), whatever the number of due
\* rows.
C11_EveryDueRowEveryTick ==
  [][\A w \in Workers :
       TickEndsWell(w) =>
         \A id \in tick[w].due :
           /\ Occurrences(tick[w].fetched, id) = 1
           /\ Decodes(outbox[id].payload_json) => Occurrences(tick[w].published, id) = 1]_vars

\* What FetchPending hands to the tick: the batch_size smallest ids among the
\* pending due rows, in ascending order.
FetchTakesFirstDue ==
  \A w \in Workers :
    Fetches(w) =>
      LET due == DueIds(outbox, now)
          got == {batch'[w][i].id : i \in 1..Len(batch'[w])}
          k == IF Cardinality(due) < batchSize[w] THEN Cardinality(due) ELSE batchSize[w]
      IN  /\ got \subseteq due
          /\ Len(batch'[w]) = k
          /\ Cardinality(got) = k
          /\ \A a \in got, b \in due \ got : a < b
          /\ \A i \in 1..Len(batch'[w]) :
               /\ batch'[w][i] = outbox[batch'[w][i].id]
               /\ i > 1 => batch'[w][i - 1].id < batch'[w][i].id

\* While a dispatchBatch call runs, the events handled so far are a prefix of
\* the fetched ones, and exactly the decodable ones among them were passed
\* to Publish, once each and in order.
TickProgress ==
  \A w \in Workers :
    pc[w] # "idle" =>
      LET handled == Len(tick[w].fetched) - Len(batch[w]) + (IF pc[w] = "mark" THEN 1 ELSE 0)
          Decodable(id) == Decodes(outbox[id].payload_json)
      IN  /\ handled \in 0..Len(tick[w].fetched)
          /\ \A i \in 1..Len(batch[w]) :
               batch[w][i].id = tick[w].fetched[Len(tick[w].fetched) - Len(batch[w]) + i]
          /\ tick[w].published = SelectSeq(SubSeq(tick[w].fetched, 1, handled), Decodable)

\* C11, amended: each tick fetches the batch_size smallest ids among the
\* pending due rows and makes exactly one dispatch attempt (one Publish call
\* when the payload decodes) for each fetched row, in id order, up to a mark
\* call that fails; due rows beyond batch_size get no attempt in that tick.
C11_OneAttemptPerFetchedRow == []TickProgress /\ [][FetchTakesFirstDue]_vars

C11_Witness ==
  /\ pc[1] = "mark"
  /\ Cardinality(tick[1].due) = 2
  /\ tick[1].fetched = <<1>>
  /\ tick[1].published = <<1>>
  /\ batchSize[1] = 1

\* The step is worker w's mark of the head event, and the mark call
\* returned nil.
Marked(w) ==
  /\ pc[w] = "mark" /\ pc'[w] # "mark"
  /\ faults' = faults
  /\ restarts' = restarts

OtherRowsKept(id) ==
  /\ Len(outbox') = Len(outbox)
  /\ \A i \in 1..Len(outbox) : i # id => outbox'[i] = outbox[i]

SuccessPath(w) ==
  LET id == Head(batch[w]).id
  IN  /\ Occurrences(tick[w].published, id) = 1
      /\ outbox'[id] = [outbox[id] EXCEPT !.status = "dispatched",
                                          !.dispatched_at = now,
                                          !.last_error = ""]
      /\ outbox'[id].attempts = Head(batch[w]).attempts
      /\ outbox'[id].next_attempt_at = Head(batch[w]).next_attempt_at
      /\ OtherRowsKept(id)
      /\ metrics'[w] = [metrics[w] EXCEPT !.success = @ + 1]
      /\ failCount' = failCount

\* C12: for a due pending row with a decodable payload whose Publish
\* succeeds, one dispatchBatch call calls Publish for it exactly once, marks
\* it dispatched with dispatched_at set and last_error cleared, adds exactly 1
\* to dispatch_success_total, leaves attempts and next_attempt_at alone (no
\* MarkFailed, no MarkDead), and its fetch is limited by the configured batch
\* size.
C12_SuccessMarksDispatched ==
  [][\A w \in Workers :
       /\ (Marked(w) /\ outcome[w] = "ok") => SuccessPath(w)
       /\ Fetches(w) => Len(batch'[w]) <= batchSize[w]]_vars

C12_Witness ==
  \E i \in OutboxIds :
    /\ outbox[i].status = "dispatched"
    /\ outbox[i].dispatched_at = 1
    /\ outbox[i].attempts = 1
    /\ outbox[i].last_error = ""
    /\ metrics[1].success = 1
    /\ metrics[1].failure = 1

\* The retry delays in seconds after the 1st, 2nd, 3rd and 4th failure.
RetryDelays == <<1, 4, 9, 16>>

RetryPath(w) ==
  LET id == Head(batch[w]).id
      a == Head(batch[w]).attempts
      message == IF Decodes(outbox[id].payload_json)
                 THEN "publish failed"
                 ELSE "decode payload: " \o "invalid JSON"
  IN  /\ outbox'[id] = [outbox[id] EXCEPT !.attempts = a + 1,
                                          !.last_error = message,
                                          !.next_attempt_at = now + RetryDelays[a + 1]]
      /\ outbox'[id].status = "pending"
      /\ outbox'[id].dispatched_at = -1
      /\ OtherRowsKept(id)
      /\ metrics'[w] = [metrics[w] EXCEPT !.failure = @ + 1]

\* C13: when Publish or the decoding of the payload fails for a pending row
\* with a prior attempts and a + 1 < 5, the row stays pending with attempts =
\* a + 1, last_error = the failure message (starting "decode payload: " for a
\* decode failure), next_attempt_at = now + backoff(a + 1); it is marked
\* neither dispatched nor dead and dispatch_failure_total grows by exactly 1.
C13_FailureSchedulesRetry ==
  [][\A w \in Workers :
       (Marked(w) /\ outcome[w] # "ok" /\ Head(batch[w]).attempts + 1 < maxRetry)
         => RetryPath(w)]_vars

C13_Witness ==
  \E i, j \in OutboxIds :
    /\ outbox[i].status = "pending" /\ outbox[i].attempts = 4
    /\ outbox[i].next_attempt_at = 16 /\ outbox[i].last_error = "publish failed"
    /\ outbox[j].status = "pending" /\ outbox[j].attempts = 1
    /\ outbox[j].next_attempt_at = 1
    /\ outbox[j].last_error = "decode payload: invalid JSON"
    /\ metrics[1].failure = 2 /\ metrics[1].dead = 0

(***************************************************************************)
(* Claims about dispatcher restarts, stated for SpecDispatch.              *)
(***************************************************************************)
\* The step replaces worker w's dispatcher by a newly constructed one.
Restarted == restarts' = restarts + 1

DispatchedStays ==
  \A i \in OutboxIds :
    outbox[i].status = "dispatched" =>
      /\ outbox'[i] = outbox[i]
      /\ CountOf(pubCount', i) = CountOf(pubCount, i)

RestartKeepsOutboxOnly ==
  Restarted =>
    /\ outbox' = outbox
    /\ \A w \in Workers : pc[w] # "idle" => (pc'[w] = "idle" /\ batch'[w] = <<>>)

ResumesFromOutbox ==
  \A w \in Workers :
    Fetches(w) =>
      /\ {batch'[w][i].id : i \in 1..Len(batch'[w])} \subseteq DueIds(outbox, now)
      /\ DueIds(outbox, now) # {} => batch'[w] # <<>>
      /\ Len(batch'[w]) < batchSize[w] =>
           {batch'[w][i].id : i \in 1..Len(batch'[w])} = DueIds(outbox, now)
      /\ \A i \in 1..Len(batch'[w]) : batch'[w][i] = outbox[batch'[w][i].id]

\* C14: a dispatcher constructed after a restart works from the persisted
\* outbox only: its ticks fetch the rows that are pending and due in the
\* table as it is then, so a row still pending is attempted again, and a row
\* already dispatched is never passed to Publish again and never changed.
C14_RestartResumesFromOutbox ==
  [][DispatchedStays /\ RestartKeepsOutboxOnly /\ ResumesFromOutbox]_vars

C14_Witness ==
  \E i \in OutboxIds :
    /\ restarts = 1 /\ faults = 0
    /\ outbox[i].status = "dispatched" /\ outbox[i].attempts = 0
    /\ CountOf(pubCount, i) = 2
    /\ metrics[1].success = 1
    /\ \E j \in OutboxIds : j # i /\ outbox[j].status = "dispatched" /\ CountOf(pubCount, j) = 1

(***************************************************************************)
(* Claims about one dispatchBatch call, stated for SpecBatch.              *)
(***************************************************************************)
\* The step handles the head event of worker w's batch up to the
\* publisher's answer.
Attempts(w) == pc[w] = "publish" /\ pc'[w] = "mark"

FailureKeepsGoing(w) ==
  (Marked(w) /\ outcome[w] # "ok") =>
    /\ batch'[w] = Tail(batch[w])
    /\ Tail(batch[w]) # <<>> => (pc'[w] = "publish" /\ tick'[w] = tick[w])

HeadIsAttempted(w) ==
  Attempts(w) =>
    LET event == Head(batch[w])
    IN  /\ outcome'[w] # "none"
        /\ batch'[w] = batch[w]
        /\ Decodes(event.payload_json) =>
             CountOf(pubCount', event.id) = CountOf(pubCount, event.id) + 1

AllFetchedAttempted(w) ==
  TickEndsWell(w) =>
    \A id \in {tick[w].fetched[i] : i \in 1..Len(tick[w].fetched)} :
      Decodes(outbox[id].payload_json) => Occurrences(tick[w].published, id) = 1

\* C15: within one dispatchBatch call, a decode or publish failure of one
\* event (whose mark call succeeds) does not end the batch: the remaining
\* fetched events are attempted, each in its turn.
C15_FailureDoesNotStopBatch ==
  [][\A w \in Workers :
       FailureKeepsGoing(w) /\ HeadIsAttempted(w) /\ AllFetchedAttempted(w)]_vars

C15_Witness ==
  /\ pc[1] = "mark"
  /\ tick[1].fetched = <<1, 2>>
  /\ outbox[1].status = "pending" /\ outbox[1].attempts = 1
  /\ tick[1].published = <<2>>
  /\ outcome[1] = "ok"
  /\ faults = 0

\* The step is worker w's mark of the head event, and the mark call
\* (MarkDispatched, MarkFailed or MarkDead) returned an error.
MarkErrored(w) == pc[w] = "mark" /\ faults' = faults + 1

BatchStopsAtEvent(w) ==
  MarkErrored(w) =>
    /\ batch'[w] = <<>> /\ pc'[w] = "idle"
    /\ outbox' = outbox
    /\ metrics' = metrics
    /\ failCount' = failCount
    /\ pubCount' = pubCount

\* Publish is called only for the head of a batch that is being handled.
PublishOnlyInBatch ==
  \A id \in OutboxIds :
    CountOf(pubCount', id) # CountOf(pubCount, id) =>
      \E w \in Workers : Attempts(w) /\ Head(batch[w]).id = id

\* C16: when the mark call for an event returns an error, dispatchBatch
\* stops at that event: no counter moves for it, the outbox is as before, no
\* later event of the batch is passed to Publish in this tick, and the worker
\* is back in its loop, where the next tick's fetch can run.
C16_MarkErrorEndsBatch ==
  /\ [][PublishOnlyInBatch /\ \A w \in Workers : BatchStopsAtEvent(w)]_vars
  /\ [](\A w \in {1} : pc[w] = "idle" => ENABLED Fetch(w, FALSE))

C16_Witness ==
  /\ faults = 1 /\ pc[1] = "idle"
  /\ CountOf(pubCount, 1) = 1 /\ CountOf(pubCount, 2) = 0
  /\ DueIds(outbox, now) = {1, 2}
  /\ outbox[1].attempts = 0
  /\ batchSize[1] = DefaultBatchSize
  /\ metrics[1] = [success |-> 0, failure |-> 0, dead |-> 0]

(***************************************************************************)
(* Claims about Start and Close, stated for SpecLife and FairLife.         *)
(***************************************************************************)
\* C17: for any interleaving of Start and Close calls on one dispatcher, at
\* most one worker loop of that dispatcher is running at any time.
C17_AtMostOneLoop == Cardinality(Running) <= 1

\* The step is the return of caller t's Close.
Returns(t) == calls[t].op = "Close" /\ calls'[t].op = "none"

CloseAlwaysReturns == \A t \in Callers : (calls[t].op = "Close") ~> (calls[t].op = "none")

NoLoopAtReturn == \A t \in Callers : Returns(t) => Running' = {}

\* C18: every Close call eventually returns, and at its return no worker
\* loop of the dispatcher is running, whether Close comes before Start,
\* several times, or concurrently with Start or another Close, every
\* dispatchBatch call terminating.
C18_CloseReturnsWithNoLoop == CloseAlwaysReturns /\ [][NoLoopAtReturn]_vars

(***************************************************************************)
(* Claims about the replay, stated for Spec.                               *)
(***************************************************************************)
TenantAuditIds(tenantID) ==
  LET mine == SelectSeq(audit, LAMBDA r : r.tenant_id = tenantID)
  IN  [i \in 1..Len(mine) |-> mine[i].id]

DeliveredIds(tenantID, size) ==
  LET evs == ReplayTenantEvents(audit, tenantID, size)
  IN  [i \in 1..Len(evs) |-> evs[i].AuditID]

\* C19: for every batch size, ReplayTenantEvents hands the tenant's audit
\* events to apply_fn oldest to newest, i.e. in ascending audit id order.
C19_ReplayAscending ==
  \A tenantID \in Tenants, size \in ReplayBatchSizes :
    DeliveredIds(tenantID, size) = TenantAuditIds(tenantID)

\* The records of the tenant that exist now, with their data.
CurrentRecords(tenantID) ==
  LET mine == {r \in Records : r[1] = tenantID /\ kv[KeyOf(r)] # NoRow}
  IN  [a \in {r[3] : r \in mine} |->
         kv[KeyOf(CHOOSE r \in mine : r[3] = a)].value]

\* C20: over an audit stream written by the record store alone, folding the
\* events ReplayTenantEvents delivers into a projection yields exactly the
\* tenant's existing records with their current data; a record created,
\* updated and deleted is absent.
C20_ProjectionEqualsState ==
  kvOps = 0 =>
    \A tenantID \in Tenants, size \in ReplayBatchSizes :
      FoldProjection(<<>>, ReplayTenantEvents(audit, tenantID, size))
        = CurrentRecords(tenantID)

\* C21: for every batch size and any mix of tenants in the audit stream,
\* ReplayTenantEvents(tenant) hands apply_fn every audit event of that
\* tenant exactly once and never an event of another tenant.
C21_ReplayTenantIsolation ==
  \A tenantID \in Tenants, size \in ReplayBatchSizes :
    LET evs == ReplayTenantEvents(audit, tenantID, size)
    IN  /\ \A i \in 1..Len(evs) :
             /\ evs[i].Envelope.tenant_id = tenantID
             /\ audit[evs[i].AuditID].tenant_id = tenantID
             /\ evs[i].Envelope.event_id = audit[evs[i].AuditID].event_id
        /\ \A id \in 1..Len(audit) :
             Occurrences(DeliveredIds(tenantID, size), id)
               = (IF audit[id].tenant_id = tenantID THEN 1 ELSE 0)

C21_Witness ==
  /\ Len(audit) = 3
  /\ audit[1].tenant_id = "t1" /\ audit[2].tenant_id = "t2" /\ audit[3].tenant_id = "t1"
  /\ DeliveredIds("t1", 1) = <<3, 1>>
  /\ DeliveredIds("t2", 1) = <<2>>

(***************************************************************************)
(* Claims about the replay's errors and the codec, stated for SpecReplay.  *)
(***************************************************************************)
\* The tenant's audit ids in the order the replay walks them.
ReplayOrder == Reverse(TenantAuditIds(replay.tenantID))

AppliedIds == [i \in 1..Len(replay.applied) |-> replay.applied[i].AuditID]

Normalized(id) == EventCodecNormalize(replay.codec, ReplayEnvelope(audit[id]))

ReplayNeverSkips ==
  LET k == Len(replay.applied)
  IN  /\ k <= Len(ReplayOrder)
      /\ AppliedIds = SubSeq(ReplayOrder, 1, k)
      /\ \A i \in 1..k :
           /\ Normalized(AppliedIds[i]).err = "none"
           /\ replay.applied[i].Envelope = Normalized(AppliedIds[i]).envelope
           /\ i < k => replay.applied[i].ok
      /\ (k > 0 /\ ~replay.applied[k].ok) =>
           (replay.status = "error" /\ replay.err = "apply replay event")
      /\ replay.status = "ok" =>
           (k = Len(ReplayOrder) /\ \A i \in 1..k : replay.applied[i].ok)
      /\ (replay.status = "error" /\ replay.err = "normalize event") =>
           /\ k < Len(ReplayOrder)
           /\ Normalized(ReplayOrder[k + 1]).err # "none"
      /\ (replay.status = "error" /\ replay.err = "apply replay event") =>
           (k > 0 /\ ~replay.applied[k].ok)

\* C22: the replay never passes over an event: when Normalize fails for an
\* event or apply_fn returns an error, ReplayTenantEvents stops there and
\* returns an error; apply_fn is not called for an event that failed to
\* normalize, nor for any later event.
C22_ReplayStopsAtError ==
  /\ []ReplayNeverSkips
  /\ [][replay.status # "running" => replay' = replay]_vars

C22_Witness ==
  /\ replay.status = "error" /\ replay.err = "normalize event"
  /\ Len(ReplayOrder) = 3
  /\ Len(replay.applied) = 1
  /\ audit[ReplayOrder[3]].schema_version = CurrentEventSchemaVersion

\* The envelopes of the seeded rows and their first normalizations.
CodecInputs ==
  LET rowEnvs == {ReplayEnvelope(audit[i]) : i \in 1..Len(audit)}
      once == {EventCodecNormalize(replay.codec, e).envelope :
                 e \in {x \in rowEnvs : EventCodecNormalize(replay.codec, x).err = "none"}}
      ahead == {[e EXCEPT !.schema_version = CurrentEventSchemaVersion + 1] : e \in rowEnvs}
  IN  rowEnvs \cup once \cup ahead

\* C23: Normalize is idempotent on every envelope on which it succeeds, and
\* its result carries the current schema version whenever the envelope's
\* version was not above the current one.
C23_NormalizeIdempotent ==
  \A e \in CodecInputs :
    LET n == EventCodecNormalize(replay.codec, e)
    IN  n.err = "none" =>
          /\ EventCodecNormalize(replay.codec, n.envelope) = n
          /\ e.schema_version <= CurrentEventSchemaVersion =>
               n.envelope.schema_version = CurrentEventSchemaVersion

C23_Witness ==
  \E i \in 1..Len(replay.applied) :
    LET call == replay.applied[i]
    IN  /\ audit[call.AuditID].schema_version = CurrentEventSchemaVersion - 2
        /\ call.Envelope.schema_version = CurrentEventSchemaVersion
        /\ call.Envelope.payload = Upcast(Upcast("A"))
        /\ EventCodecNormalize(replay.codec, call.Envelope).envelope = call.Envelope

(***************************************************************************)
(* Claims about the schema service, stated for SpecSchema.                 *)
(***************************************************************************)
\* The step is the return of caller t's Validate.
ValidateReturns(t) ==
  /\ schemaCalls[t].op = "Validate"
  /\ schemaCalls'[t].op = "none"

\* C24: Validate passes exactly when the data validates against the schema
\* stored now, and passes when none is stored, after any interleaving of
\* earlier Upsert, Delete and Validate calls, overlapping ones included.
\* Stated for the Validate calls that overlap with no other call.
C24_ValidateAgainstStoredSchema ==
  [][\A t \in Callers :
       (ValidateReturns(t) /\ ~schemaCalls'[t].overlapped) =>
         (schemaCalls'[t].ret = "pass"
            <=> (schemaRepo = "none" \/ Accepts(schemaRepo, schemaCalls'[t].arg)))]_vars

(***************************************************************************)
(* Claims about the idempotent-response cache, stated for SpecIdem.        *)
(***************************************************************************)
\* The callers that have a bulk request in progress or served.
BulkSeen == {t \in Callers : bulkCalls[t].pc # "idle"}

\* The request carries an Idempotency-Key.
Keyed(t) == bulkCalls[t].tuple[4] # ""

\* C25: the cache key is injective: two requests whose (tenant, collection,
\* op, token) tuples differ, every component a non-empty string of the key
\* charset, never get the same cache key.
C25_KeyInjective ==
  \A t, u \in BulkSeen :
    (Keyed(t) /\ Keyed(u) /\ bulkCalls[t].tuple # bulkCalls[u].tuple)
      => KeyOfTuple(bulkCalls[t].tuple) # KeyOfTuple(bulkCalls[u].tuple)

\* C26: of the requests that carry the same (tenant, collection, op,
\* Idempotency-Key), at most one applies its mutations: no two of them both
\* wrote audit rows, whatever their interleaving.
C26_BulkAppliedAtMostOnce ==
  \A t, u \in BulkSeen :
    (t # u /\ Keyed(t) /\ bulkCalls[t].tuple = bulkCalls[u].tuple)
      => ~(bulkCalls[t].wrote # {} /\ bulkCalls[u].wrote # {})

(***************************************************************************)
(* Claims about tenant isolation, stated for SpecHttp.                     *)
(***************************************************************************)
\* The keys of the records that belong to another tenant.
OthersKeys(tenantID) == {KeyOf(r) : r \in {q \in Records : q[1] # tenantID}}

\* C27: a request authenticated as one tenant never observes, creates,
\* changes or deletes the stored state of a record of another tenant, on the
\* collection endpoints or on the /v1/kv endpoints.
C27_TenantIsolation ==
  [][http'.n # http.n =>
       /\ http'.observed \cap OthersKeys(http'.tenant) = {}
       /\ \A k \in OthersKeys(http'.tenant) : kv'[k] = kv[k]]_vars

(***************************************************************************)
(* Claims about the writer lane, stated for SpecTx.                        *)
(***************************************************************************)
\* At most one write transaction is between its Begin and its end.
OneWriter == Cardinality({t \in Callers : InTx(t)}) <= 1

\* The audit rows of the aggregate, in id order.
StreamOf(rec) ==
  SelectSeq(audit, LAMBDA e : /\ e.tenant_id = rec[1]
                              /\ e.aggregate_type = rec[2]
                              /\ e.aggregate_id = rec[3])

\* The versions of every aggregate are 1, 2, 3, ... in write order.
ConsecutiveVersions ==
  \A rec \in Records : \A i \in 1..Len(StreamOf(rec)) : StreamOf(rec)[i].aggregate_version = i

\* The audit row is appended by the transaction that computed its version,
\* and the version is still the aggregate's next one.
VersionWithAppend ==
  Len(audit') > Len(audit) =>
    \E t \in Callers :
      /\ InTx(t) /\ txs[t].pc = "append" /\ txs'[t].pc \in {"commit", "rollback"}
      /\ audit'[Len(audit')].aggregate_version = txs[t].version
      /\ txs[t].version =
           nextAggregateVersion(audit, txs[t].arg[1], txs[t].arg[2], txs[t].arg[3])

\* C28: write transactions are serialized: at most one of them (record
\* upsert or delete, KV upsert or delete, outbox mark) is in progress at any
\* time; the writes to one aggregate get different, consecutive
\* aggregate_version values, each assigned in the transaction that appends
\* its audit row.
C28_WritesSerialized ==
  /\ []OneWriter
  /\ []ConsecutiveVersions
  /\ [][VersionWithAppend]_vars

\* Two goroutines wrote the same aggregate, the second called while the
\* first was running, and both committed.
C28_Witness ==
  \E t, u \in Callers :
    /\ t # u
    /\ txs[t].result = "committed" /\ txs[u].result = "committed"
    /\ txs[t].pc = "idle" /\ txs[u].pc = "idle"
    /\ txs[t].op \in RecordOps /\ txs[u].op \in RecordOps
    /\ txs[t].arg = txs[u].arg
    /\ txs[u].overlapped
    /\ txs[t].version >= 1
    /\ txs[u].version = txs[t].version + 1

(***************************************************************************)
(* Claims about the publish-then-mark order, stated for FairRestart.       *)
(***************************************************************************)
\* A row turns dispatched only in the mark step of the worker that has just
\* been told by Publish that this row's event was accepted.
DispatchedOnlyAfterPublish ==
  \A id \in OutboxIds :
    (outbox[id].status # "dispatched" /\ outbox'[id].status = "dispatched") =>
      \E w \in Workers :
        /\ pc[w] = "mark" /\ outcome[w] = "ok"
        /\ Head(batch[w]).id = id
        /\ tick[w].published # <<>>
        /\ tick[w].published[Len(tick[w].published)] = id
        /\ outbox[id].status = "pending"

\* Publish accepted the head event and then MarkDispatched failed or the
\* process stopped.
LostMark(w) ==
  /\ pc[w] = "mark" /\ outcome[w] = "ok"
  /\ faults' = faults + 1 \/ restarts' = restarts + 1

LostMarkKeepsRow ==
  \A w \in Workers :
    LostMark(w) =>
      LET id == Head(batch[w]).id
      IN  /\ outbox' = outbox
          /\ outbox'[id].status = "pending"
          /\ outbox'[id].attempts = Head(batch[w]).attempts
          /\ pc'[w] = "idle"

\* What Publish is given is the stored payload of the row, which no step
\* rewrites: every publish of the row carries the same event_id.
PublishesStoredEvent ==
  /\ \A id \in OutboxIds :
       /\ outbox'[id].payload_json = outbox[id].payload_json
       /\ outbox'[id].event_id = outbox[id].event_id
  /\ \A w \in Workers :
       (pc[w] = "publish" /\ pc'[w] = "mark") =>
         Head(batch[w]).payload_json = outbox[Head(batch[w]).id].payload_json

\* The row is pending and no dispatchBatch call is running.
WaitsForTick(id) == id \in OutboxIds /\ outbox[id].status = "pending" /\ pc[1] = "idle"

\* A tick has just passed the row's event to Publish.
JustPublished(id) ==
  /\ pc[1] = "mark" /\ Head(batch[1]).id = id
  /\ tick[1].published # <<>> /\ tick[1].published[Len(tick[1].published)] = id

\* C29: a row becomes dispatched only after Publish succeeded for it in the
\* same batch iteration; when Publish succeeded and MarkDispatched failed, or
\* the process stopped in between, the row stays pending with its attempts
\* unchanged and a later tick publishes it again with the same event_id.
C29_DispatchedOnlyAfterPublish ==
  /\ [][DispatchedOnlyAfterPublish /\ LostMarkKeepsRow /\ PublishesStoredEvent]_vars
  /\ \A id \in 1..MaxRows : WaitsForTick(id) ~> JustPublished(id)

\* The row was published and its mark was lost, it is still pending with no
\* attempt counted, and a later tick has published it a second time.
C29_Witness ==
  /\ faults + restarts >= 1
  /\ JustPublished(1)
  /\ CountOf(pubCount, 1) = 2
  /\ CountOf(failCount, 1) = 0
  /\ outbox[1].status = "pending" /\ outbox[1].attempts = 0

(***************************************************************************)
(* Claims about the Publish calls of one dispatchBatch, stated for         *)
(* SpecBatch.                                                              *)
(***************************************************************************)
\* The Publish calls a running dispatchBatch has made: ascending outbox ids,
\* each a row that was pending and due when the batch was fetched, no more
\* of them than the batch size.
PublishedInOrder(w) ==
  LET p == tick[w].published
  IN  /\ \A i, j \in 1..Len(p) : i < j => p[i] < p[j]
      /\ \A i \in 1..Len(p) : p[i] \in tick[w].due
      /\ Len(p) <= batchSize[w]

\* Every Publish call is the one a running dispatchBatch makes for the head
\* of what is left of its batch, and it is recorded once.
PublishIsBatchStep ==
  \A id \in OutboxIds :
    CountOf(pubCount', id) # CountOf(pubCount, id) =>
      \E w \in Workers :
        /\ pc[w] = "publish" /\ pc'[w] = "mark"
        /\ Head(batch[w]).id = id
        /\ CountOf(pubCount', id) = CountOf(pubCount, id) + 1
        /\ tick'[w].published = Append(tick[w].published, id)

\* C30: within one dispatchBatch, Publish is called for the fetched events
\* in strictly ascending outbox id order, at most once per row, only for
\* rows that were pending with next_attempt_at <= now at fetch time, and for
\* at most batch_size of them.
C30_PublishAscendingOncePerRow ==
  /\ [](\A w \in Workers : pc[w] # "idle" => PublishedInOrder(w))
  /\ [][PublishIsBatchStep]_vars

\* A batch of two rows, both passed to Publish, the first one failed.
C30_Witness ==
  /\ pc[1] = "mark"
  /\ tick[1].published = <<1, 2>>
  /\ tick[1].due = {1, 2}
  /\ CountOf(failCount, 1) = 1
  /\ CountOf(pubCount, 1) = 1 /\ CountOf(pubCount, 2) = 1


(***************************************************************************)
(* Claims about EventCodec.Normalize, stated for SpecCodec.                *)
(***************************************************************************)
\* Every registered upcaster goes one version up, as an Upcaster is defined.
OneStep(codec) == \A v \in DOMAIN codec : codec[v].to = v + 1

\* The versions from v up to the one below the current, ascending.
StepsBelow(v) == [i \in 1..(CurrentEventSchemaVersion - v) |-> v + i - 1]

\* The payload after n upcasts.
RECURSIVE UpcastTimes(_, _)
UpcastTimes(n, payload) == IF n = 0 THEN payload ELSE Upcast(UpcastTimes(n - 1, payload))

\* The first version of the chain from v whose upcaster is missing, all the
\* upcasters before it being registered and succeeding; {} if there is none.
FirstMissing(codec, v) ==
  {m \in Versions :
     /\ v <= m /\ m < CurrentEventSchemaVersion /\ m \notin DOMAIN codec
     /\ \A u \in Versions : v <= u /\ u < m => u \in DOMAIN codec /\ ~codec[u].fails}

\* C31: with upcasters that each go one version up, Normalize applies them
\* one version at a time in ascending order from the envelope's version, each
\* at most once, each on the payload the one before it returned; a version
\* below the current one without an upcaster ends the call with the
\* missing-upcaster error of that version and the zero envelope; an envelope
\* at or above the current version is returned as it is.
C31_NormalizeStepwise ==
  norm.pc # "idle" /\ OneStep(norm.codec) =>
    LET v0 == norm.envelope.schema_version
        chain == StepsBelow(v0)
    IN  /\ Len(norm.applied) <= Len(chain)
        /\ \A i \in 1..Len(norm.applied) : norm.applied[i] = chain[i]
        /\ norm.payload = UpcastTimes(Len(norm.applied), norm.envelope.payload)
        /\ norm.pc = "done" =>
             /\ norm.err = "none" =>
                  /\ norm.applied = chain
                  /\ norm.out = [norm.envelope EXCEPT
                                   !.schema_version = IF v0 < CurrentEventSchemaVersion
                                                      THEN CurrentEventSchemaVersion ELSE v0,
                                   !.payload = UpcastTimes(Len(chain), norm.envelope.payload)]
             /\ v0 >= CurrentEventSchemaVersion =>
                  norm.err = "none" /\ norm.out = norm.envelope
             /\ \A m \in FirstMissing(norm.codec, v0) :
                  /\ norm.err = "missing upcaster" /\ norm.at = m
                  /\ norm.out = EmptyEnvelope
                  /\ norm.applied = [i \in 1..(m - v0) |-> chain[i]]
             /\ norm.err = "missing upcaster" => FirstMissing(norm.codec, v0) # {}
             /\ [err |-> norm.err, envelope |-> norm.out]
                  = EventCodecNormalize(norm.codec, norm.envelope)

\* An envelope two versions below the current one has been taken through both
\* upcasters and returned at the current version.
C31_Witness ==
  /\ norm.pc = "done"
  /\ OneStep(norm.codec)
  /\ norm.envelope.schema_version = CurrentEventSchemaVersion - 2
  /\ norm.err = "none"
  /\ norm.applied = <<CurrentEventSchemaVersion - 2, CurrentEventSchemaVersion - 1>>
  /\ norm.out.schema_version = CurrentEventSchemaVersion
  /\ norm.out.payload = Upcast(Upcast(norm.envelope.payload))

\* C39: on each iteration of Normalize's loop the version variable strictly
\* increases, for any set of registered upcasters, so the loop reaches the
\* current schema version and the call returns.
C39_VersionIncreases ==
  [][norm.pc = "loop" /\ norm'.pc = "loop" => norm'.v > norm.v]_vars

(***************************************************************************)
(* Claims about the retry delay, stated for FairRestart.                   *)
(***************************************************************************)
MaxAttempt == 20
BackoffCap == 300

\* The attempts values backoffDuration is asked about.
BackoffInputs == (0 - 2)..MaxAttempt

\* backoffDuration as a function of attempts: 1 up to 1, the square from 2
\* on where that is within the cap, the cap beyond, never decreasing.
BackoffShape ==
  /\ \A a \in BackoffInputs :
       /\ a <= 1 => backoffDuration(a) = 1
       /\ a >= 2 /\ a * a <= BackoffCap => backoffDuration(a) = a * a
       /\ a >= 2 /\ a * a > BackoffCap => backoffDuration(a) = BackoffCap
       /\ backoffDuration(a) <= BackoffCap
  /\ \A a, b \in BackoffInputs : a <= b => backoffDuration(a) <= backoffDuration(b)

\* The step records a failure of worker w's head event that leaves it
\* pending: the retry is 1, 4, 9 or 16 seconds ahead, by the attempts made.
ScheduledDelay(w) ==
  LET id == Head(batch[w]).id
  IN  (Marked(w) /\ outcome[w] # "ok" /\ outbox'[id].status = "pending") =>
        /\ outbox'[id].attempts \in 1..(maxRetry - 1)
        /\ outbox'[id].next_attempt_at - now
             = CASE outbox'[id].attempts = 1 -> 1
                 [] outbox'[id].attempts = 2 -> 4
                 [] outbox'[id].attempts = 3 -> 9
                 [] outbox'[id].attempts = 4 -> 16
        /\ outbox'[id].next_attempt_at - now = backoffDuration(outbox'[id].attempts)

\* C32: backoff(attempts) is 1 s for attempts <= 1, attempts squared seconds
\* from 2 on, never more than 300 s and non-decreasing in attempts; the
\* delays the dispatcher schedules, for attempts 1..4, are 1, 4, 9 and 16 s.
C32_Backoff ==
  /\ []BackoffShape
  /\ [][\A w \in Workers : pc[w] = "mark" => ScheduledDelay(w)]_vars

\* The fourth failure of a row has been recorded, its retry 16 s ahead, and
\* the cap is in force for an attempts value beyond the retry budget.
C32_Witness ==
  /\ \E i \in OutboxIds :
       /\ outbox[i].status = "pending" /\ outbox[i].attempts = 4
       /\ outbox[i].next_attempt_at = now + 16
  /\ backoffDuration(MaxAttempt) = BackoffCap
  /\ MaxAttempt * MaxAttempt > BackoffCap

(***************************************************************************)
(* Claims about the dispatcher's counters, stated for SpecMetrics.         *)
(***************************************************************************)
\* Worker w is between two events of a batch or between two batches.
BetweenEvents(w) == pc[w] \in {"idle", "publish", "mark"}

\* C33: the dispatcher's counters never decrease; between two events
\* dispatch_success_total is the number of MarkDispatched calls that returned
\* nil, dispatch_dead_total the number of such MarkDead calls and
\* dispatch_failure_total the number of recorded failures, dead-lettered ones
\* included; and dispatch_dead_total <= dispatch_failure_total in every state.
C33_CountersConsistent ==
  /\ [](\A w \in Workers :
          /\ BetweenEvents(w) =>
               /\ metrics[w].success = marks[w].dispatched
               /\ metrics[w].dead = marks[w].dead
               /\ metrics[w].failure = marks[w].failed + marks[w].dead
          /\ metrics[w].dead <= metrics[w].failure)
  /\ [][\A w \in Workers :
          /\ metrics'[w].success >= metrics[w].success
          /\ metrics'[w].failure >= metrics[w].failure
          /\ metrics'[w].dead >= metrics[w].dead]_vars

\* C33 without its last part: the counters never decrease and, between two
\* events, agree with the mark calls that returned nil, where dead <= failure.
CountersBetweenEvents ==
  /\ [](\A w \in Workers :
          BetweenEvents(w) =>
            /\ metrics[w].success = marks[w].dispatched
            /\ metrics[w].dead = marks[w].dead
            /\ metrics[w].failure = marks[w].failed + marks[w].dead
            /\ metrics[w].dead <= metrics[w].failure)
  /\ [][\A w \in Workers :
          /\ metrics'[w].success >= metrics[w].success
          /\ metrics'[w].failure >= metrics[w].failure
          /\ metrics'[w].dead >= metrics[w].dead]_vars

(***************************************************************************)
(* Claims about the columns of an outbox row, stated for SpecDispatch.     *)
(***************************************************************************)
\* What every outbox row looks like, by its status.
RowShape(row) ==
  /\ row.status = "pending" => 0 <= row.attempts /\ row.attempts <= maxRetry - 1
  /\ row.status = "dead" => row.attempts >= maxRetry
  /\ row.status = "dispatched" => row.dispatched_at # -1 /\ row.last_error = ""
  /\ row.status # "dispatched" => row.dispatched_at = -1

\* The step records a failure of the head event of worker w's batch.
RecordsFailure(w) == pc[w] = "mark" /\ Marked(w) /\ outcome[w] # "ok"

\* attempts of a row changes only by a recorded failure of that row, by 1.
AttemptsStep ==
  /\ \A i \in OutboxIds :
       /\ outbox'[i].attempts >= outbox[i].attempts
       /\ outbox'[i].attempts # outbox[i].attempts =>
            \E w \in Workers : RecordsFailure(w) /\ Head(batch[w]).id = i
  /\ \A w \in Workers :
       RecordsFailure(w) =>
         outbox'[Head(batch[w]).id].attempts = outbox[Head(batch[w]).id].attempts + 1

\* C34: with one dispatcher worker at a time, in every state a pending row
\* has 0 <= attempts <= 4, a dead row attempts >= 5, a dispatched row has
\* dispatched_at set and last_error empty, any other row has dispatched_at
\* unset; attempts of a row never decreases and grows by exactly 1 with each
\* recorded failure.
C34_OutboxRowShape ==
  /\ [](\A i \in OutboxIds : RowShape(outbox[i]))
  /\ [][AttemptsStep]_vars

\* One row has been dead-lettered at its fifth failure while another was
\* dispatched after failures, its last_error cleared.
C34_Witness ==
  \E i, j \in OutboxIds :
    /\ outbox[i].status = "dead" /\ outbox[i].attempts = maxRetry
    /\ outbox[i].last_error # "" /\ outbox[i].dispatched_at = -1
    /\ outbox[j].status = "dispatched" /\ outbox[j].attempts >= 1
    /\ outbox[j].dispatched_at # -1 /\ outbox[j].last_error = ""

(***************************************************************************)
(* Claims about the identity of a record, stated for SpecIdentity.         *)
(***************************************************************************)
\* The records the service accepts.
ValidRecords == {r \in IdentityRecords : RecordValidate(r)}

\* The records written under so far.
WrittenRecords == {r \in ValidRecords : ident.written[r] # "none"}

\* The step is a RecordService call on record r that returned no error.
ServiceCalled(r) == ident' # ident /\ ident'.rec = r /\ ~ident'.err

\* C35: two different (tenant_id, collection, id) triples of valid
\* components never share a storage key; Get(t, c, i) returns only the data
\* last upserted under exactly (t, c, i), and nothing after its delete; an
\* upsert or delete of one triple never changes what Get returns for another.
C35_RecordIdentity ==
  /\ [](\A r, q \in WrittenRecords : r # q => KeyOf(r) # KeyOf(q))
  /\ [](ident.op = "get" /\ ~ident.err =>
          IF ident.written[ident.rec] = "none"
          THEN ident.got = NoRow
          ELSE ident.got # NoRow /\ ident.got.value = ident.written[ident.rec])
  /\ [][\A r \in ValidRecords :
          ServiceCalled(r) /\ ident'.op \in {"upsert", "delete"} =>
            \A q \in ValidRecords \ {r} : kv'[KeyOf(q)] = kv[KeyOf(q)]]_vars

(***************************************************************************)
(* Claims about reads in parallel with writes, stated for SpecRead.        *)
(***************************************************************************)
\* The audit rows of a record in the tables db, in write order.
StreamIn(db, rec) ==
  SelectSeq(db.audit, LAMBDA e : /\ e.tenant_id = rec[1]
                                 /\ e.aggregate_type = rec[2]
                                 /\ e.aggregate_id = rec[3])

\* The tables hold whole writes only: every outbox row has its audit row and
\* every audit row its outbox row, and every record is as its last audit row
\* says.
WholeWrites(db) ==
  /\ \A i \in 1..Len(db.outbox) :
       \E j \in 1..Len(db.audit) : db.audit[j].event_id = db.outbox[i].event_id
  /\ \A j \in 1..Len(db.audit) :
       \E i \in 1..Len(db.outbox) : db.outbox[i].event_id = db.audit[j].event_id
  /\ \A rec \in Records :
       LET stream == StreamIn(db, rec)
           row == db.kv[KeyOf(rec)]
       IN  IF stream = <<>> \/ stream[Len(stream)].action = "record.deleted"
           THEN row = NoRow
           ELSE row # NoRow /\ row.value = stream[Len(stream)].after_json

\* The step serves a read.
Reads == rd' # rd

EarlyIds == {i \in 1..Len(audit) : audit[i].tenant_id = replay.tenantID} \ LateIds

\* C37: with audit events appended while ReplayTenantEvents runs, the replay
\* still returns, hands no event to applyFn more than once and none that was
\* appended after its first batch was listed, and a replay that returns nil
\* has delivered exactly the tenant's events that existed at that listing.
C37_ReplayUnderAppends ==
  /\ [](/\ \A id \in 1..Len(audit) : Occurrences(AppliedIds, id) <= 1
        /\ \A i \in 1..Len(AppliedIds) : AppliedIds[i] \in EarlyIds
        /\ replay.status = "ok" => {AppliedIds[i] : i \in 1..Len(AppliedIds)} = EarlyIds)
  /\ <>(replay.status # "running")

\* A replay of two batches has returned nil while an event of its tenant was
\* appended behind it.
C37_Witness ==
  /\ replay.status = "ok"
  /\ Len(replay.applied) >= 2
  /\ replay.size = 1
  /\ \E i \in LateIds : audit[i].tenant_id = replay.tenantID

(***************************************************************************)
(* Bulk operations are not atomic across their items.                      *)
(***************************************************************************)
BulkKey(i) == recordKey("t1", "users", bulkRun.items[i])

\* The items the running call has got past: all those before position k.
BulkPassed == IF bulkRun.pc = "idle" THEN {} ELSE 1..(bulkRun.k - 1)

\* The audit and outbox rows written since the call began.
BulkRows == (bulkRun.base + 1)..Len(audit)

\* The call returned an error: it stopped at item k.
BulkFailed == bulkRun.pc = "done" /\ bulkRun.err # "none"

\* What the tables hold of a BulkUpsert call: one audit row and one outbox
\* row for each item passed, in input order, and the record of each.
BulkUpsertCommitted ==
  /\ Len(audit) = bulkRun.base + Cardinality(BulkPassed)
  /\ Len(outbox) = Len(audit)
  /\ \A i \in BulkPassed :
       /\ audit[bulkRun.base + i].aggregate_id = bulkRun.items[i]
       /\ audit[bulkRun.base + i].action \in {"record.created", "record.updated"}
       /\ outbox[bulkRun.base + i].event_id = audit[bulkRun.base + i].event_id
       /\ outbox[bulkRun.base + i].status = "pending"
       /\ kv[BulkKey(i)] # NoRow
  /\ \A i \in 1..Len(bulkRun.items) :
       (\A j \in BulkPassed : bulkRun.items[j] # bulkRun.items[i])
         => kv[BulkKey(i)] = NoRow \/ \E r \in 1..bulkRun.base :
                                        audit[r].aggregate_id = bulkRun.items[i]

\* What the tables hold of a BulkDelete call: one "record.deleted" row for
\* each record it removed, and none of the records of the items passed.
BulkDeleteCommitted ==
  /\ Len(audit) = bulkRun.base + bulkRun.deleted
  /\ Len(outbox) = Len(audit)
  /\ bulkRun.deleted <= Cardinality(BulkPassed)
  /\ \A r \in BulkRows :
       /\ audit[r].action = "record.deleted"
       /\ outbox[r].event_id = audit[r].event_id
       /\ \E i \in BulkPassed : bulkRun.items[i] = audit[r].aggregate_id
  /\ \A i \in BulkPassed : kv[BulkKey(i)] = NoRow

\* What the call returns: an error exactly when it stopped before the end of
\* the list; BulkUpsert then returns no records, and all of them otherwise.
BulkReturned ==
  bulkRun.pc = "done" =>
    /\ bulkRun.err # "none" <=> bulkRun.k <= Len(bulkRun.items)
    /\ bulkRun.op = "bulk-upsert" =>
         bulkRun.result = (IF bulkRun.err = "none" THEN bulkRun.items ELSE <<>>)

\* One item step of the running call: it applies item k and nothing else.
\* A step that fails ends the call and leaves the three tables as they were;
\* a step that succeeds writes that item's record and its two rows.
BulkItemStep ==
  (bulkRun.pc = "loop" /\ bulkRun'.n = bulkRun.n /\ bulkRun' # bulkRun
     /\ bulkRun.k <= Len(bulkRun.items)) =>
    /\ \A key \in BulkKeys : key # BulkKey(bulkRun.k) => kv'[key] = kv[key]
    /\ IF bulkRun'.pc = "done"
       THEN /\ bulkRun'.err # "none" /\ bulkRun'.k = bulkRun.k
            /\ kv' = kv /\ audit' = audit /\ outbox' = outbox
       ELSE /\ bulkRun'.k = bulkRun.k + 1
            /\ IF bulkRun.op = "bulk-upsert" \/ kv[BulkKey(bulkRun.k)] # NoRow
               THEN /\ Len(audit') = Len(audit) + 1
                    /\ SubSeq(audit', 1, Len(audit)) = audit
                    /\ audit'[Len(audit')].aggregate_id = bulkRun.items[bulkRun.k]
                    /\ Len(outbox') = Len(outbox) + 1
                    /\ SubSeq(outbox', 1, Len(outbox)) = outbox
                    /\ outbox'[Len(outbox')].event_id = audit'[Len(audit')].event_id
               ELSE audit' = audit /\ outbox' = outbox

\* Once the call has returned nothing more of it is applied.
BulkStopped ==
  (bulkRun.pc = "done" /\ bulkRun'.n = bulkRun.n) =>
    kv' = kv /\ audit' = audit /\ outbox' = outbox

\* C38: BulkUpsert and BulkDelete apply their items in input order, each in
\* its own write transaction; when item k fails the call returns an error, the
\* items before k stay committed with their audit and outbox rows, and no item
\* after k is applied.
C38_BulkNotAtomic ==
  /\ [](bulkRun.op = "bulk-upsert" => BulkUpsertCommitted)
  /\ [](bulkRun.op = "bulk-delete" => BulkDeleteCommitted)
  /\ []BulkReturned
  /\ [][BulkItemStep /\ BulkStopped]_vars

\* A BulkUpsert of three items failed at the second with the outbox insert
\* rolled back: the first item is committed with its rows, the third record
\* was never written.
C38_Witness ==
  /\ BulkFailed /\ bulkRun.op = "bulk-upsert"
  /\ Len(bulkRun.items) = 3 /\ bulkRun.k = 2
  /\ last.fail = "outbox"
  /\ bulkRun.items[3] # bulkRun.items[1]
  /\ kv[BulkKey(1)] # NoRow /\ kv[BulkKey(3)] = NoRow
  /\ Len(audit) = bulkRun.base + 1 /\ Len(outbox) = bulkRun.base + 1
  /\ audit[Len(audit)].aggregate_id = bulkRun.items[1]
====
